---- MODULE Spec2Model ----
(***************************************************************************)
(* Verification model of the asynchronous tool-execution core of           *)
(* goat-core: the job state machine, the job-scoped temporary tables and   *)
(* the query engines of src/crud/crud_geoanalysis.py, crud_isochrone.py    *)
(* and crud_layer.py.                                                      *)
(*                                                                         *)
(* Three specifications share this module:                                 *)
(*   Spec     the life of tool jobs, statement by statement                *)
(*   SpecIso  isochrone staging of coordinate lists (geofence validation   *)
(*            and insertion in batches)                                    *)
(*   SpecOD   the two INSERT ... SELECT statements of the                  *)
(*            origin-destination engine, evaluated on data                 *)
(***************************************************************************)
EXTENDS Integers, Sequences, FiniteSets, Bags, TLC

VARIABLES
    \* ---- Spec: jobs and the shared database
    tool,        \* tool[j]: the tool the job runs
    params,      \* params[j]: the request parameters that select a code path
    status,      \* status[j]: the job's status_simple
    pc,          \* pc[j]: the statement the job executes next
    result,      \* result[j]: status of the dict the last step returned
    stepLog,     \* stepLog[j]: the job's ordered step log
    calls,       \* calls[j]: statements of the tool body that completed (history)
    raisedIn,    \* raisedIn[j]: the step in which an error was raised (history)
    temp,        \* names of the temporary tables that exist
    created,     \* created[j]: names of the temporary tables job j created (history)
    rows,        \* <<table, layer id>> of the committed rows of the permanent user tables
    uncommitted, \* uncommitted[j]: rows job j's session inserted and has not committed
    layers,      \* ids of the registered layers
    \* ---- SpecIso: isochrone staging
    isoIn,       \* the request (starting_points) and the geofence table
    isoPc,       \* position in create_or_return_layer_starting_points
    isoI,        \* loop variable i
    isoChecks,   \* <<first, last>> index of each batch the validation query got
    isoInserts,  \* <<first, last>> index of each batch the INSERT got
    isoCnt,      \* cnt_not_intersecting of the last validation query
    isoTable,    \* table_starting_points: bag of <<layer id, geom>>
    \* ---- SpecOD: origin-destination on data
    odIn,        \* the mapped columns, geometry layer rows and matrix layer rows
    odPc,        \* position in origin_destination
    odMapping,   \* attribute_mapping_relation: <<slot, name>> in insertion order
    odTemp,      \* the temporary copies origin_destination has created
    odRelation,  \* rows of result_table_relation (a set: they differ by their pair)
    odPoint,     \* rows of result_table_point (a bag)
    \* ---- SpecAgg: aggregation on data
    aggIn,       \* the request, the source layer rows and the zone layer rows
    aggPc,       \* position in aggregate_point / aggregate_polygon
    aggTemp,     \* kinds of the temporary tables the aggregation has created
    aggPre,      \* rows of the pre-grouped table (hex-grid polygon path)
    aggTotal,    \* rows of the total_stats table
    aggGrouped,  \* rows of the grouped_stats table
    aggRows,     \* rows inserted into the result table
    \* ---- SpecCnt: the feature count check
    cntIn,       \* the layer's table, the two where queries and max_feature_cnt
    cntPc,       \* position in check_exceed_feature_cnt / get_feature_cnt
    cntTable,    \* the rows of the layer's table as stored
    feature_cnt, \* the dict get_feature_cnt fills
    \* ---- SpecDispatch: run_background_or_immediately
    dispSetting, \* settings.RUN_AS_BACKGROUND_TASK
    dispArrived, \* number of tool requests that have arrived
    dispInline,  \* requests run inline, awaited by their caller
    dispRunning, \* jobs running as detached background tasks
    dispWaiting, \* requests held back at the cap
    dispRejected,\* requests turned away at the cap
    dispDone,    \* background jobs that have ended
    \* ---- SpecImportMap: the attribute mapping of import_file
    mapIn,       \* file_metadata["data_types"]["valid"]: <<field type, field names>> items
    mapPc,       \* position in import_file's mapping loops
    mapType,     \* index of the field type the outer loop is at
    mapField,    \* index of the field name the inner loop is at
    mapCnt,      \* cnt of the inner loop
    attribute_mapping, \* field name -> slot, as <<key, value>> items
    stored_mapping,    \* slot -> field name, as handed to create_internal
    \* ---- SpecUpload: upload_file
    upPc,        \* position in upload_file
    upId,        \* dataset_id of the upload in progress (0 when there is none)
    upFiles,     \* dataset ids whose saved file is on disk
    upMetadata,  \* dataset ids whose metadata.json is on disk
    validation_result, \* status of the dict validate() returned
    upResponse,  \* upResponse[d]: HTTP status the upload of dataset d ended with
    \* ---- SpecUser: create_user and delete_user
    usrPc,       \* position in the endpoint that is running
    usrId,       \* user_id of the call in progress ("" when there is none)
    userRecords, \* ids of the stored user records
    userTables,  \* ids of the users whose data tables exist
    userFolders, \* ids of the users whose home folder exists
    usrResponse  \* <<endpoint, user id, HTTP status>> of the calls that ended

jobVars == <<tool, params, status, pc, result, stepLog, calls, raisedIn,
             temp, created, rows, uncommitted, layers>>
isoVars == <<isoIn, isoPc, isoI, isoChecks, isoInserts, isoCnt, isoTable>>
odVars  == <<odIn, odPc, odMapping, odTemp, odRelation, odPoint>>
aggVars == <<aggIn, aggPc, aggTemp, aggPre, aggTotal, aggGrouped, aggRows>>
cntVars == <<cntIn, cntPc, cntTable, feature_cnt>>
dispVars == <<dispSetting, dispArrived, dispInline, dispRunning, dispWaiting,
             dispRejected, dispDone>>
mapVars == <<mapIn, mapPc, mapType, mapField, mapCnt, attribute_mapping,
            stored_mapping>>
upVars  == <<upPc, upId, upFiles, upMetadata, validation_result, upResponse>>
usrVars == <<usrPc, usrId, userRecords, userTables, userFolders, usrResponse>>
vars    == <<jobVars, isoVars, odVars, aggVars, cntVars, dispVars, mapVars, upVars, usrVars>>

(***************************************************************************)
(* Jobs, identifiers and table names                                       *)
(***************************************************************************)
Jobs == {"j1", "j2"}

\* UUIDs of the two jobs and of the user, as character sequences.
job_id(j) == IF j = "j1" THEN <<"a", "1", "-", "0", "7">> ELSE <<"a", "1", "-", "0", "8">>

user_id == <<"c", "4", "-", "e", "e">>

\* The characters before the first hyphen only.
StripHyphensFirstGroup(s) ==
    SubSeq(s, 1, (CHOOSE i \in 1..Len(s) : s[i] = "-" /\ \A k \in 1..(i - 1) : s[k] # "-") - 1)

\* str(x).replace('-', '')
StripHyphens(s) == SelectSeq(s, LAMBDA c : c # "-")

Terminal == {"finished", "failed", "timeout", "killed"}
NotFinished == {"failed", "timeout", "killed"}

AggregationTools == {"aggregate_point", "aggregate_polygon"}
Tools == AggregationTools \cup {"origin_destination", "import_file"}

\* The request parameters that select a code path: an aggregation-zone layer
\* is given, group-by fields are given, weigthed_by_intersecting_area.
ParamsOf(t) ==
    CASE t = "aggregate_point" ->
            [zone : BOOLEAN, grouped : BOOLEAN, weighted : {FALSE}]
      [] t = "aggregate_polygon" ->
            [zone : BOOLEAN, grouped : BOOLEAN, weighted : BOOLEAN]
      [] OTHER ->
            [zone : {FALSE}, grouped : {FALSE}, weighted : {FALSE}]

\* table_name_total_stats with the user id in the place of the job id.
table_name_total_stats_by_user(j) ==
    <<"temporal", "total_stats", StripHyphens(user_id)>>

table_name_total_stats(j) == <<"temporal", "total_stats", StripHyphens(job_id(j))>>

table_name_grouped_stats(j) == <<"temporal", "grouped_stats", StripHyphens(job_id(j))>>

table_name_pre_grouped(j) == <<"temporal", "h3_pregrouped", StripHyphens(job_id(j))>>

\* temp_table_name of import_file: the staging table, in the user data schema.
temp_table_name(j) == <<"user_data", "", StripHyphens(job_id(j))>>

\* Names that create_distributed_point_table, create_distributed_polygon_table
\* and create_temp_table_layer give their tables (kind is the layer's role).
temp_table_of_layer(kind, j) == <<"temporal", kind, StripHyphens(job_id(j))>>

\* The temporary tables of job j that exist.
TempOf(j) == {t \in temp : t[3] = StripHyphens(job_id(j))}

\* The permanent user tables.
result_table(j) == <<"user_data", "polygon", StripHyphens(user_id)>>

result_table_relation(j) == <<"user_data", "line", StripHyphens(user_id)>>

result_table_point(j) == <<"user_data", "point", StripHyphens(user_id)>>

\* Ids of the layer descriptors a job makes (each a fresh uuid4).
layer_in_id(j) == <<j, "layer_in">>
result_layer_relation_id(j) == <<j, "result_layer_relation">>
result_layer_point_id(j) == <<j, "result_layer_point">>

\* table_starting_points of CRUDIsochroneBase.
table_starting_points == <<"user_data", "point", StripHyphens(user_id)>>

\* settings.USER_DATA_SCHEMA
USER_DATA_SCHEMA == "user_data"

\* The layer objects the tools hand to create_feature_layer_tool, which stores
\* them as feature layers of the user who runs the tool.
FeatureLayer(geometry_type) ==
    [type |-> "feature", feature_layer_geometry_type |-> geometry_type,
     user_id |-> user_id]

\* layer_in of prepare_aggregation
layer_in(j) == FeatureLayer("polygon")

\* result_layer_relation of origin_destination
result_layer_relation(j) == FeatureLayer("line")

\* result_layer_point of origin_destination
result_layer_point(j) == FeatureLayer("point")

\* layer of create_or_return_layer_starting_points
starting_points_layer == FeatureLayer("point")

\* internal_layer_table_name that leaves the hyphens in the user id.
internal_layer_table_name_with_hyphens(values) ==
    <<USER_DATA_SCHEMA, values.feature_layer_geometry_type, values.user_id>>

\* internal_layer_table_name(values): schema.<geometry type>_<user id>
internal_layer_table_name(values) ==
    CASE values.type = "feature" ->
            <<USER_DATA_SCHEMA, values.feature_layer_geometry_type,
              StripHyphens(values.user_id)>>
      [] values.type = "table" ->
            <<USER_DATA_SCHEMA, "no_geometry", StripHyphens(values.user_id)>>
      [] OTHER -> <<"ValueError">>

ResultLayerIds(j) ==
    {layer_in_id(j), result_layer_relation_id(j), result_layer_point_id(j)}

\* job_step_name of the job_log decorator of the tool's step.
job_step_name(t) ==
    CASE t = "aggregate_point" -> "aggregation"
      [] t = "aggregate_polygon" -> "aggregation"
      [] t = "origin_destination" -> "origin_destination"
      [] OTHER -> ""

(***************************************************************************)
(* Control flow of the tool bodies                                         *)
(***************************************************************************)
\* Statements of the step functions (aggregate_point, aggregate_polygon,
\* origin_destination) and of the two stages import_file awaits.
StepLabels ==
    {"get_layers_project", "check_column_statistics", "create_distributed_source",
     "create_distributed_aggregation", "h3_edge_length", "create_pre_grouped",
     "create_total_stats", "create_grouped_stats", "insert_result",
     "create_feature_layer_tool", "delete_temp_tables", "return_finished",
     "check_column_types", "create_temp_geometry", "create_temp_matrix",
     "insert_relations", "insert_points", "create_layer_relation",
     "create_layer_point", "upload_ogr2ogr", "migrate_target_table"}

\* A step is in flight.
InStep(j) == pc[j] \in StepLabels

\* The name under which the step in flight is logged.
StepName(j) ==
    IF tool[j] = "import_file"
    THEN IF pc[j] \in {"call_upload_ogr2ogr", "upload_ogr2ogr"}
         THEN "upload_ogr2ogr" ELSE "migrate_target_table"
    ELSE job_step_name(tool[j])

\* Where the caller of the step continues when the step returns.
AfterStep(j) ==
    IF tool[j] = "import_file"
    THEN IF pc[j] = "upload_ogr2ogr" THEN "check_upload" ELSE "check_migrate"
    ELSE "run_return"

\* The first statement after prepare_aggregation returned.
AfterPrepare(j) ==
    IF tool[j] = "aggregate_polygon" /\ ~params[j].zone
    THEN "h3_edge_length" ELSE "create_total_stats"

\* The statement at label l of job j completes and control moves to label n.
Stmt(j, l, n) ==
    /\ pc[j] = l
    /\ pc' = [pc EXCEPT ![j] = n]
    /\ calls' = [calls EXCEPT ![j] = Append(@, l)]

SetLast(log, st) == [log EXCEPT ![Len(log)].status = st]

(***************************************************************************)
(* Job state machine: run_background_or_immediately, job_init, job_log     *)
(***************************************************************************)
\* The first job runs any tool on any code path; the job running beside it is
\* a point aggregation on the hex grid.
JobInit ==
    /\ tool \in [Jobs -> Tools]
    /\ params \in [Jobs -> [zone : BOOLEAN, grouped : BOOLEAN, weighted : BOOLEAN]]
    /\ \A j \in Jobs : params[j] \in ParamsOf(tool[j])
    /\ tool["j2"] = "aggregate_point"
    /\ ~params["j2"].zone /\ ~params["j2"].grouped
    /\ status = [j \in Jobs |-> "pending"]
    /\ pc = [j \in Jobs |-> "dispatch"]
    /\ result = [j \in Jobs |-> "none"]
    /\ stepLog = [j \in Jobs |-> <<>>]
    /\ calls = [j \in Jobs |-> <<>>]
    /\ raisedIn = [j \in Jobs |-> ""]
    /\ temp = {}
    /\ created = [j \in Jobs |-> {}]
    /\ rows = {}
    /\ uncommitted = [j \in Jobs |-> {}]
    /\ layers = {}

\* The tool call is dispatched: pending -> running, and the *_run method starts.
dispatch(j) ==
    /\ status[j] = "pending"
    /\ pc[j] = "dispatch"
    /\ status' = [status EXCEPT ![j] = "running"]
    /\ pc' = [pc EXCEPT ![j] =
                IF tool[j] = "import_file" THEN "call_upload_ogr2ogr" ELSE "job_log"]
    /\ UNCHANGED <<tool, params, result, stepLog, calls, raisedIn, temp, created, rows, uncommitted, layers>>

\* job_log, on entry of a step: the step is logged as running.
job_log_begin(j) ==
    /\ pc[j] \in {"job_log", "call_upload_ogr2ogr", "call_migrate_target_table"}
    /\ stepLog' = [stepLog EXCEPT ![j] =
                     Append(@, [name |-> StepName(j), status |-> "running"])]
    /\ pc' = [pc EXCEPT ![j] =
                CASE pc[j] = "job_log" -> "get_layers_project"
                  [] pc[j] = "call_upload_ogr2ogr" -> "upload_ogr2ogr"
                  [] OTHER -> "migrate_target_table"]
    /\ UNCHANGED <<tool, params, status, result, calls, raisedIn, temp, created, rows, uncommitted, layers>>

\* CREATE TABLE name AS ..., executed by job j.
CreateTable(j, name) ==
    /\ temp' = temp \cup {name}
    /\ created' = [created EXCEPT ![j] = @ \cup {name}]

\* INSERT INTO table ... SELECT 'layer id', ... executed in job j's session; the
\* SELECT yields some rows (any) or none.
InsertRows(j, table, layer) ==
    /\ \E any \in BOOLEAN :
          uncommitted' = [uncommitted EXCEPT ![j] =
                            IF any THEN @ \cup {<<table, layer>>} ELSE @]
    /\ rows' = rows

\* await async_session.commit() in job j's session.
commit(j) ==
    /\ rows' = rows \cup uncommitted[j]
    /\ uncommitted' = [uncommitted EXCEPT ![j] = {}]

\* await async_session.rollback() in job j's session.
rollback(j) ==
    /\ rows' = rows
    /\ uncommitted' = [uncommitted EXCEPT ![j] = {}]

\* cleanup(jobId) of the Temp Resource Manager: drops every temp table of the job.
\* Every temporary table is dropped, whichever job it belongs to.
cleanup_every_table(j) == {}

cleanup(j) == temp \ TempOf(j)

\* job_log, when the step in flight ends by an error, the timeout or a
\* cancellation: cleanup, then the job and the step are marked with the outcome,
\* and the step returns that status to its caller. The session's pending
\* statements are rolled back, or go in with the write of the job's status.
job_log_except(j, outcome) ==
    /\ InStep(j)
    /\ temp' = cleanup(j)
    /\ stepLog' = [stepLog EXCEPT ![j] = SetLast(@, outcome)]
    /\ status' = [status EXCEPT ![j] = outcome]
    /\ result' = [result EXCEPT ![j] = outcome]
    /\ raisedIn' = [raisedIn EXCEPT ![j] = IF outcome = "failed" THEN StepName(j) ELSE @]
    /\ pc' = [pc EXCEPT ![j] = AfterStep(j)]
    /\ rollback(j) \/ commit(j)
    /\ UNCHANGED <<tool, params, created, calls, layers>>

\* The statement in flight raises (a database or engine failure).
statement_raises(j) == job_log_except(j, "failed")

\* The job's time bound expires while a step is in flight.
timeout(j) == job_log_except(j, "timeout")

\* The job is cancelled from outside while a step is in flight.
kill(j) == job_log_except(j, "killed")

\* job_log, when the step function returns its dict: the step is logged with
\* the returned status and the dict goes to the caller.
return_finished(j) ==
    /\ Stmt(j, "return_finished", AfterStep(j))
    /\ result' = [result EXCEPT ![j] = "finished"]
    /\ stepLog' = [stepLog EXCEPT ![j] = SetLast(@, "finished")]
    /\ UNCHANGED <<tool, params, status, raisedIn, temp, created, rows, uncommitted, layers>>

\* job_init, when the *_run method returns: the job takes the returned status.
job_init_end(j) ==
    /\ pc[j] = "run_return"
    /\ status' = [status EXCEPT ![j] = result[j]]
    /\ pc' = [pc EXCEPT ![j] = "done"]
    /\ UNCHANGED <<tool, params, result, stepLog, calls, raisedIn, temp, created, rows, uncommitted, layers>>

(***************************************************************************)
(* CRUDAggregateBase.prepare_aggregation                                   *)
(***************************************************************************)
get_layers_project(j) ==
    /\ Stmt(j, "get_layers_project",
            IF tool[j] = "origin_destination"
            THEN "check_column_types" ELSE "check_column_statistics")
    /\ UNCHANGED <<tool, params, status, result, stepLog, raisedIn, temp, created, rows, uncommitted, layers>>

check_column_statistics(j) ==
    /\ Stmt(j, "check_column_statistics", "create_distributed_source")
    /\ UNCHANGED <<tool, params, status, result, stepLog, raisedIn, temp, created, rows, uncommitted, layers>>

\* temp_source = create_distributed_point_table / create_distributed_polygon_table
create_distributed_source(j) ==
    /\ Stmt(j, "create_distributed_source",
            IF params[j].zone THEN "create_distributed_aggregation" ELSE AfterPrepare(j))
    /\ CreateTable(j, temp_table_of_layer("source", j))
    /\ UNCHANGED <<tool, params, status, result, stepLog, raisedIn, rows, uncommitted, layers>>

\* temp_aggregation = create_distributed_polygon_table(aggregation_layer_project)
create_distributed_aggregation(j) ==
    /\ Stmt(j, "create_distributed_aggregation", AfterPrepare(j))
    /\ CreateTable(j, temp_table_of_layer("aggregation", j))
    /\ UNCHANGED <<tool, params, status, result, stepLog, raisedIn, rows, uncommitted, layers>>

(***************************************************************************)
(* aggregate_point and aggregate_polygon                                   *)
(***************************************************************************)
\* aggregate_polygon without a zone layer: SELECT h3_get_hexagon_edge_length_avg
h3_edge_length(j) ==
    /\ Stmt(j, "h3_edge_length", "create_pre_grouped")
    /\ UNCHANGED <<tool, params, status, result, stepLog, raisedIn, temp, created, rows, uncommitted, layers>>

\* statistics_val, first_statistic_column_query and statistics_sql are assigned
\* only under weigthed_by_intersecting_area; the query text reads them.
pre_grouped_query_defined(j) == params[j].weighted

\* CREATE TABLE table_name_pre_grouped (and its index)
create_pre_grouped(j) ==
    /\ pc[j] = "create_pre_grouped"
    /\ IF pre_grouped_query_defined(j)
       THEN /\ Stmt(j, "create_pre_grouped", "create_total_stats")
            /\ CreateTable(j, table_name_pre_grouped(j))
            /\ UNCHANGED <<tool, params, status, result, stepLog, raisedIn, rows, uncommitted, layers>>
       ELSE job_log_except(j, "failed")

\* CREATE TABLE table_name_total_stats (and its index)
create_total_stats(j) ==
    /\ Stmt(j, "create_total_stats",
            IF params[j].grouped THEN "create_grouped_stats" ELSE "insert_result")
    /\ CreateTable(j, table_name_total_stats(j))
    /\ UNCHANGED <<tool, params, status, result, stepLog, raisedIn, rows, uncommitted, layers>>

\* CREATE TABLE table_name_grouped_stats (and its index)
\* grouped_stats is followed by the registration of the layer, not by the INSERT.
create_grouped_stats_then_layer(j) ==
    /\ Stmt(j, "create_grouped_stats", "create_feature_layer_tool")
    /\ CreateTable(j, table_name_grouped_stats(j))
    /\ UNCHANGED <<tool, params, status, result, stepLog, raisedIn, rows, uncommitted, layers>>

create_grouped_stats(j) ==
    /\ Stmt(j, "create_grouped_stats", "insert_result")
    /\ CreateTable(j, table_name_grouped_stats(j))
    /\ UNCHANGED <<tool, params, status, result, stepLog, raisedIn, rows, uncommitted, layers>>

\* INSERT INTO result_table ... SELECT '{layer_in.id}', ...
insert_result(j) ==
    /\ Stmt(j, "insert_result", "create_feature_layer_tool")
    /\ InsertRows(j, result_table(j), layer_in_id(j))
    /\ UNCHANGED <<tool, params, status, result, stepLog, raisedIn, temp, created, layers>>

\* create_feature_layer_tool(layer_in): the result layer is registered.
create_feature_layer_tool(j) ==
    /\ Stmt(j, "create_feature_layer_tool", "delete_temp_tables")
    /\ layers' = layers \cup {layer_in_id(j)}
    /\ commit(j)
    /\ UNCHANGED <<tool, params, status, result, stepLog, raisedIn, temp, created>>

\* The step carries on to its return with the temporary tables left in place.
delete_temp_tables_skipped(j) ==
    /\ Stmt(j, "delete_temp_tables", "return_finished")
    /\ UNCHANGED <<tool, params, status, result, stepLog, raisedIn, temp, created, rows, uncommitted, layers>>

\* delete_temp_tables()
delete_temp_tables(j) ==
    /\ Stmt(j, "delete_temp_tables", "return_finished")
    /\ temp' = cleanup(j)
    /\ UNCHANGED <<tool, params, created, status, result, stepLog, raisedIn, rows, uncommitted, layers>>

(***************************************************************************)
(* origin_destination                                                      *)
(***************************************************************************)
check_column_types(j) ==
    /\ Stmt(j, "check_column_types", "create_temp_geometry")
    /\ UNCHANGED <<tool, params, status, result, stepLog, raisedIn, temp, created, rows, uncommitted, layers>>

\* temp_geometry_layer = create_temp_table_layer(geometry_layer_project); index; commit
create_temp_geometry(j) ==
    /\ Stmt(j, "create_temp_geometry", "create_temp_matrix")
    /\ CreateTable(j, temp_table_of_layer("geometry", j))
    /\ UNCHANGED <<tool, params, status, result, stepLog, raisedIn, rows, uncommitted, layers>>

\* temp_origin_destination_matrix_layer = create_temp_table_layer(...); index; commit
create_temp_matrix(j) ==
    /\ Stmt(j, "create_temp_matrix", "insert_relations")
    /\ CreateTable(j, temp_table_of_layer("matrix", j))
    /\ UNCHANGED <<tool, params, status, result, stepLog, raisedIn, rows, uncommitted, layers>>

\* sql_query_relations
insert_relations(j) ==
    /\ Stmt(j, "insert_relations", "insert_points")
    /\ InsertRows(j, result_table_relation(j), result_layer_relation_id(j))
    /\ UNCHANGED <<tool, params, status, result, stepLog, raisedIn, temp, created, layers>>

\* sql_query_points
insert_points(j) ==
    /\ Stmt(j, "insert_points", "create_layer_relation")
    /\ InsertRows(j, result_table_point(j), result_layer_point_id(j))
    /\ UNCHANGED <<tool, params, status, result, stepLog, raisedIn, temp, created, layers>>

\* create_feature_layer_tool(layer_in=result_layer_relation)
create_layer_relation(j) ==
    /\ Stmt(j, "create_layer_relation", "create_layer_point")
    /\ layers' = layers \cup {result_layer_relation_id(j)}
    /\ commit(j)
    /\ UNCHANGED <<tool, params, status, result, stepLog, raisedIn, temp, created>>

\* create_feature_layer_tool(layer_in=result_layer_point)
create_layer_point(j) ==
    /\ Stmt(j, "create_layer_point", "return_finished")
    /\ layers' = layers \cup {result_layer_point_id(j)}
    /\ commit(j)
    /\ UNCHANGED <<tool, params, status, result, stepLog, raisedIn, temp, created>>

(***************************************************************************)
(* CRUDLayer.import_file                                                   *)
(***************************************************************************)
\* The user table migrate_target_table fills (the table of the file's geometry type).
import_table(j) == <<"user_data", "point", StripHyphens(user_id)>>

\* ogr_file_upload.upload_ogr2ogr(temp_table_name, job_id), when it succeeds:
\* the file is loaded into the staging table.
upload_ogr2ogr(j) ==
    /\ Stmt(j, "upload_ogr2ogr", AfterStep(j))
    /\ CreateTable(j, temp_table_name(j))
    /\ result' = [result EXCEPT ![j] = "finished"]
    /\ stepLog' = [stepLog EXCEPT ![j] = SetLast(@, "finished")]
    /\ UNCHANGED <<tool, params, status, raisedIn, rows, uncommitted, layers>>

\* result["status"] in [failed, timeout, killed], with killed and timeout left out.
is_failure_status_failed_only(s) == s = "failed"

\* result["status"] in [JobStatusType.failed, JobStatusType.timeout, JobStatusType.killed]
is_failure_status(s) == s \in {"failed", "timeout", "killed"}

\* check_upload without the early return.
check_upload_always_continues(j) ==
    /\ pc[j] = "check_upload"
    /\ pc' = [pc EXCEPT ![j] = "call_migrate_target_table"]
    /\ UNCHANGED <<tool, params, status, result, stepLog, calls, raisedIn, temp, created, rows, uncommitted, layers>>

\* if result["status"] in [...]: return result
check_upload(j) ==
    /\ pc[j] = "check_upload"
    /\ pc' = [pc EXCEPT ![j] =
                IF is_failure_status(result[j])
                THEN "run_return" ELSE "call_migrate_target_table"]
    /\ UNCHANGED <<tool, params, status, result, stepLog, calls, raisedIn, temp, created, rows, uncommitted, layers>>

\* ogr_file_upload.migrate_target_table(...), when it succeeds: the rows of the
\* staging table go to the user table under layer_in.id, the staging table goes.
migrate_target_table(j) ==
    /\ Stmt(j, "migrate_target_table", AfterStep(j))
    /\ uncommitted' = [uncommitted EXCEPT ![j] = @ \cup {<<import_table(j), layer_in_id(j)>>}]
    /\ rows' = rows
    /\ temp' = temp \ {temp_table_name(j)}
    /\ result' = [result EXCEPT ![j] = "finished"]
    /\ stepLog' = [stepLog EXCEPT ![j] = SetLast(@, "finished")]
    /\ UNCHANGED <<tool, params, created, status, raisedIn, layers>>

\* check_migrate with the rollback and without the early return.
check_migrate_without_return(j) ==
    /\ pc[j] = "check_migrate"
    /\ pc' = [pc EXCEPT ![j] = "update_job_layer_ids"]
    /\ IF is_failure_status(result[j])
       THEN /\ calls' = [calls EXCEPT ![j] = Append(@, "rollback")]
            /\ rollback(j)
       ELSE /\ calls' = calls
            /\ UNCHANGED <<rows, uncommitted>>
    /\ UNCHANGED <<tool, params, status, result, stepLog, raisedIn, temp, created, layers>>

\* if result["status"] in [...]: await async_session.rollback(); return result
check_migrate(j) ==
    /\ pc[j] = "check_migrate"
    /\ IF is_failure_status(result[j])
       THEN /\ pc' = [pc EXCEPT ![j] = "run_return"]
            /\ calls' = [calls EXCEPT ![j] = Append(@, "rollback")]
            /\ rollback(j)
       ELSE /\ pc' = [pc EXCEPT ![j] = "update_job_layer_ids"]
            /\ calls' = calls
            /\ UNCHANGED <<rows, uncommitted>>
    /\ UNCHANGED <<tool, params, status, result, stepLog, raisedIn, temp, created, layers>>

\* crud_job.update(obj_in={"layer_ids": [str(layer_in.id)]})
update_job_layer_ids(j) ==
    /\ Stmt(j, "update_job_layer_ids", "create_internal")
    /\ commit(j)
    /\ UNCHANGED <<tool, params, status, result, stepLog, raisedIn, temp, created, layers>>

\* create_internal(...): the layer is created; import_file returns result.
create_internal(j) ==
    /\ Stmt(j, "create_internal", "run_return")
    /\ layers' = layers \cup {layer_in_id(j)}
    /\ commit(j)
    /\ UNCHANGED <<tool, params, status, result, stepLog, raisedIn, temp, created>>

\* job_init, when the body raises outside a step: cleanup, the job is failed.
job_init_except(j) ==
    /\ pc[j] \in {"update_job_layer_ids", "create_internal"}
    /\ temp' = cleanup(j)
    /\ status' = [status EXCEPT ![j] = "failed"]
    /\ result' = [result EXCEPT ![j] = "failed"]
    /\ pc' = [pc EXCEPT ![j] = "done"]
    /\ rollback(j) \/ commit(j)
    /\ UNCHANGED <<tool, params, created, stepLog, calls, raisedIn, layers>>

(***************************************************************************)
(* Specification of the jobs                                               *)
(***************************************************************************)
IsoIdle ==
    /\ isoIn = [latitude |-> <<>>, longitude |-> <<>>, layer_project_id |-> "",
                geofence |-> {}]
    /\ isoPc = "idle"
    /\ isoI = 0
    /\ isoChecks = <<>>
    /\ isoInserts = <<>>
    /\ isoCnt = 0
    /\ isoTable = EmptyBag

OdIdle ==
    /\ odIn = [columns |-> <<>>, geometry |-> <<>>, matrix |-> <<>>]
    /\ odPc = "idle"
    /\ odMapping = <<>>
    /\ odTemp = {}
    /\ odRelation = {}
    /\ odPoint = EmptyBag

AggIdle ==
    /\ aggIn = [tool |-> "", zones |-> <<>>, source |-> <<>>]
    /\ aggPc = "idle"
    /\ aggTemp = {}
    /\ aggPre = {}
    /\ aggTotal = {}
    /\ aggGrouped = {}
    /\ aggRows = {}

CntIdle ==
    /\ cntIn = [where_query |-> "None"]
    /\ cntPc = "idle"
    /\ cntTable = <<>>
    /\ feature_cnt = <<>>

DispIdle ==
    /\ dispSetting = FALSE
    /\ dispArrived = 0
    /\ dispInline = 0
    /\ dispRunning = 0
    /\ dispWaiting = 0
    /\ dispRejected = 0
    /\ dispDone = 0

MapIdle ==
    /\ mapIn = <<>>
    /\ mapPc = "idle"
    /\ mapType = 0
    /\ mapField = 0
    /\ mapCnt = 0
    /\ attribute_mapping = <<>>
    /\ stored_mapping = <<>>

UpIdle ==
    /\ upPc = "idle"
    /\ upId = 0
    /\ upFiles = {}
    /\ upMetadata = {}
    /\ validation_result = "none"
    /\ upResponse = <<>>

UsrIdle ==
    /\ usrPc = "idle"
    /\ usrId = ""
    /\ userRecords = {}
    /\ userTables = {}
    /\ userFolders = {}
    /\ usrResponse = <<>>

Init == JobInit /\ IsoIdle /\ OdIdle /\ AggIdle /\ CntIdle /\ DispIdle /\ MapIdle /\ UpIdle /\ UsrIdle

\* The isochrone and origin-destination data stay as they are.
JobStep == UNCHANGED <<isoVars, odVars, aggVars, cntVars, dispVars, mapVars, upVars, usrVars>>

Next ==
    \E j \in Jobs :
        \/ dispatch(j) /\ JobStep
        \/ job_log_begin(j) /\ JobStep
        \/ statement_raises(j) /\ JobStep
        \/ timeout(j) /\ JobStep
        \/ kill(j) /\ JobStep
        \/ return_finished(j) /\ JobStep
        \/ job_init_end(j) /\ JobStep
        \/ job_init_except(j) /\ JobStep
        \/ get_layers_project(j) /\ JobStep
        \/ check_column_statistics(j) /\ JobStep
        \/ create_distributed_source(j) /\ JobStep
        \/ create_distributed_aggregation(j) /\ JobStep
        \/ h3_edge_length(j) /\ JobStep
        \/ create_pre_grouped(j) /\ JobStep
        \/ create_total_stats(j) /\ JobStep
        \/ create_grouped_stats(j) /\ JobStep
        \/ insert_result(j) /\ JobStep
        \/ create_feature_layer_tool(j) /\ JobStep
        \/ delete_temp_tables(j) /\ JobStep
        \/ check_column_types(j) /\ JobStep
        \/ create_temp_geometry(j) /\ JobStep
        \/ create_temp_matrix(j) /\ JobStep
        \/ insert_relations(j) /\ JobStep
        \/ insert_points(j) /\ JobStep
        \/ create_layer_relation(j) /\ JobStep
        \/ create_layer_point(j) /\ JobStep
        \/ upload_ogr2ogr(j) /\ JobStep
        \/ check_upload(j) /\ JobStep
        \/ migrate_target_table(j) /\ JobStep
        \/ check_migrate(j) /\ JobStep
        \/ update_job_layer_ids(j) /\ JobStep
        \/ create_internal(j) /\ JobStep

Spec == Init /\ [][Next]_vars

(***************************************************************************)
(* CRUDIsochroneBase.create_or_return_layer_starting_points                *)
(***************************************************************************)
\* for i in range(0, len(latitude), 500); latitude[i : i + 500]
BatchSize == 500

\* Bounds of the requests: the lists hold k * BatchSize + e points, k up to
\* MaxBatches and e up to MaxExtra, or up to MaxSmall points; all points are
\* (0, 0) except at up to MaxSpecial places.
MaxBatches == 1
MaxExtra == 1
MaxSmall == 3
MaxSpecial == 2

Coords == {0, 1}

Min(a, b) == IF a < b THEN a ELSE b

RECURSIVE SumOver(_, _)
\* Sum of f[x] over the finite set S.
SumOver(S, f) ==
    IF S = {} THEN 0
    ELSE LET x == CHOOSE y \in S : TRUE IN f[x] + SumOver(S \ {x}, f)

\* Number of places of sequence q that hold v.
CountIn(q, v) == Cardinality({i \in DOMAIN q : q[i] = v})

\* ST_SETSRID(ST_MAKEPOINT(lat, lon), 4326): the first argument is the x.
MakePoint(lat, lon) == [x |-> lat, y |-> lon]

\* EXISTS (SELECT 1 FROM geofence_table g WHERE ST_INTERSECTS(geom, g.geom)):
\* the geofence is given by the point geometries it covers.
InGeofence(geom) == geom \in isoIn.geofence

\* The id of the layer object made for the starting points (a fresh uuid4).
starting_points_layer_id == "layer"

\* Python's q[i : i + 500], i counted from 0.
Slice(q, i) == SubSeq(q, i + 1, Min(i + BatchSize, Len(q)))

\* FROM UNNEST(ARRAY lats) AS lat, UNNEST(ARRAY lons) AS lon: every lat is
\* joined with every lon. The rows of the join as a bag of <<lat, lon>>.
UnnestJoin(lats, lons) ==
    LET pairs == {<<a, b>> \in Coords \X Coords : CountIn(lats, a) * CountIn(lons, b) > 0}
    IN  [p \in pairs |-> CountIn(lats, p[1]) * CountIn(lons, p[2])]

\* SELECT COUNT(*) FROM to_test t WHERE NOT EXISTS (... ST_INTERSECTS ...)
CountNotIntersecting(lats, lons) ==
    LET join == UnnestJoin(lats, lons)
        out == {p \in DOMAIN join : ~InGeofence(MakePoint(p[1], p[2]))}
    IN  SumOver(out, join)

\* The rows INSERT INTO table_starting_points (layer_id, geom) SELECT ... adds.
InsertedRows(lats, lons) ==
    LET join == UnnestJoin(lats, lons)
        geoms == {<<starting_points_layer_id, MakePoint(p[1], p[2])>> : p \in DOMAIN join}
    IN  [r \in geoms |->
            SumOver({p \in DOMAIN join :
                       <<starting_points_layer_id, MakePoint(p[1], p[2])>> = r}, join)]

\* if cnt_not_intersecting > 1 (one offending row is let through)
BatchFailsAboveOne(cnt) == cnt > 1

\* if cnt_not_intersecting > 0: raise OutOfGeofenceError
BatchFails(cnt) == cnt > 0

\* Lengths of the coordinate lists of the requests.
IsoLengths ==
    ({k * BatchSize + e : k \in 0..MaxBatches, e \in 0..MaxExtra} \cup 1..MaxSmall) \ {0}


\* The requests: coordinate lists of equal length (the schema's validator),
\* or the id of a layer; and the geofence.
IsoRequests ==
    {[latitude |-> [i \in 1..n |-> IF i \in sp THEN v[1] ELSE 0],
      longitude |-> [i \in 1..n |-> IF i \in sp THEN v[2] ELSE 0],
      layer_project_id |-> "",
      geofence |-> {MakePoint(p[1], p[2]) : p \in g}] :
        n \in IsoLengths,
        sp \in {x \in SUBSET {1, 2, BatchSize, BatchSize + 1} : Cardinality(x) <= MaxSpecial},
        v \in (Coords \X Coords),
        g \in SUBSET (Coords \X Coords)}
    \cup
    {[latitude |-> <<>>, longitude |-> <<>>, layer_project_id |-> "layer_project",
      geofence |-> {MakePoint(p[1], p[2]) : p \in g}] : g \in {Coords \X Coords}}

JobsIdle ==
    /\ tool = [j \in Jobs |-> "import_file"]
    /\ params = [j \in Jobs |-> [zone |-> FALSE, grouped |-> FALSE, weighted |-> FALSE]]
    /\ status = [j \in Jobs |-> "pending"]
    /\ pc = [j \in Jobs |-> "idle"]
    /\ result = [j \in Jobs |-> "none"]
    /\ stepLog = [j \in Jobs |-> <<>>]
    /\ calls = [j \in Jobs |-> <<>>]
    /\ raisedIn = [j \in Jobs |-> ""]
    /\ temp = {}
    /\ created = [j \in Jobs |-> {}]
    /\ rows = {}
    /\ uncommitted = [j \in Jobs |-> {}]
    /\ layers = {}

IsoInit ==
    /\ isoIn \in IsoRequests
    /\ isoPc = "start"
    /\ isoI = 0
    /\ isoChecks = <<>>
    /\ isoInserts = <<>>
    /\ isoCnt = 0
    /\ isoTable = EmptyBag

\* if params.starting_points.layer_project_id: return the layer
return_layer ==
    /\ isoPc = "start"
    /\ isoIn.layer_project_id # ""
    /\ isoPc' = "returned_layer"
    /\ UNCHANGED <<isoIn, isoI, isoChecks, isoInserts, isoCnt, isoTable>>

\* layer = IFeatureLayerToolCreate(...); the first loop is entered
create_layer_object ==
    /\ isoPc = "start"
    /\ isoIn.layer_project_id = ""
    /\ isoPc' = "validate"
    /\ isoI' = 0
    /\ UNCHANGED <<isoIn, isoChecks, isoInserts, isoCnt, isoTable>>

\* One pass of the first loop: the batch is counted against the geofence.
validate_batch ==
    /\ isoPc = "validate"
    /\ isoI < Len(isoIn.latitude)
    /\ LET lats == Slice(isoIn.latitude, isoI)
           lons == Slice(isoIn.longitude, isoI)
           cnt == CountNotIntersecting(lats, lons)
       IN  /\ isoCnt' = cnt
           /\ isoChecks' = Append(isoChecks, <<isoI + 1, isoI + Len(lats)>>)
           /\ IF BatchFails(cnt)
              THEN isoPc' = "raised" /\ isoI' = isoI
              ELSE isoPc' = "validate" /\ isoI' = isoI + BatchSize
    /\ UNCHANGED <<isoIn, isoInserts, isoTable>>

\* The first loop ends; the second loop is entered.
validation_done ==
    /\ isoPc = "validate"
    /\ isoI >= Len(isoIn.latitude)
    /\ isoPc' = "insert"
    /\ isoI' = 0
    /\ UNCHANGED <<isoIn, isoChecks, isoInserts, isoCnt, isoTable>>

\* One pass of the second loop: the batch is inserted.
insert_batch ==
    /\ isoPc = "insert"
    /\ isoI < Len(isoIn.latitude)
    /\ LET lats == Slice(isoIn.latitude, isoI)
           lons == Slice(isoIn.longitude, isoI)
       IN  /\ isoTable' = isoTable (+) InsertedRows(lats, lons)
           /\ isoInserts' = Append(isoInserts, <<isoI + 1, isoI + Len(lats)>>)
    /\ isoI' = isoI + BatchSize
    /\ UNCHANGED <<isoIn, isoPc, isoChecks, isoCnt>>

\* return layer
return_new_layer ==
    /\ isoPc = "insert"
    /\ isoI >= Len(isoIn.latitude)
    /\ isoPc' = "returned"
    /\ UNCHANGED <<isoIn, isoI, isoChecks, isoInserts, isoCnt, isoTable>>

InitIso == JobsIdle /\ IsoInit /\ OdIdle /\ AggIdle /\ CntIdle /\ DispIdle /\ MapIdle /\ UpIdle /\ UsrIdle

IsoStep == UNCHANGED <<jobVars, odVars, aggVars, cntVars, dispVars, mapVars, upVars, usrVars>>

NextIso ==
    \/ return_layer /\ IsoStep
    \/ create_layer_object /\ IsoStep
    \/ validate_batch /\ IsoStep
    \/ validation_done /\ IsoStep
    \/ insert_batch /\ IsoStep
    \/ return_new_layer /\ IsoStep

SpecIso == InitIso /\ [][NextIso]_vars

(***************************************************************************)
(* CRUDOriginDestination.origin_destination: the two INSERT ... SELECT     *)
(***************************************************************************)
\* Bounds of the layers: rows of the geometry layer, rows of the matrix layer.
MaxNodes == 2
MaxMatrixRows == 2

NodeIds == {1, 2}
Weights == {1, 2}

RECURSIVE SeqsUpTo(_, _)
\* The sequences over S of length at most n.
SeqsUpTo(S, n) ==
    IF n = 0 THEN {<<>>}
    ELSE LET shorter == SeqsUpTo(S, n - 1)
         IN  shorter \cup {Append(q, x) : q \in {r \in shorter : Len(r) = n - 1}, x \in S}

\* The temp copy of the geometry layer: its unique-id column and its geom
\* (each row has a geom of its own). The unique-id column is the user's choice
\* and nothing checks that its values differ.
GeometryLayers ==
    {[i \in DOMAIN ids |-> [id |-> ids[i], geom |-> i]] : ids \in SeqsUpTo(NodeIds, MaxNodes)}

\* The temp copy of the matrix layer: origin, destination and weight columns.
MatrixLayers ==
    SeqsUpTo([origin : NodeIds, destination : NodeIds, weight : Weights], MaxMatrixRows)

ST_CENTROID(g) == <<"centroid", g>>
ST_MakeLine(a, b) == <<"line", a, b>>

\* The join with the destination condition left out.
RelationJoinOriginOnly(geometry, matrix) ==
    {t \in (DOMAIN geometry) \X (DOMAIN geometry) \X (DOMAIN matrix) :
        geometry[t[1]].id = matrix[t[3]].origin}

\* FROM temp_geometry origin, temp_geometry destination, temp_matrix matrix
\* WHERE origin.uid = matrix.origin AND destination.uid = matrix.destination:
\* the joined rows, as <<origin row, destination row, matrix row>> indices.
RelationJoin(geometry, matrix) ==
    {t \in (DOMAIN geometry) \X (DOMAIN geometry) \X (DOMAIN matrix) :
        /\ geometry[t[1]].id = matrix[t[3]].origin
        /\ geometry[t[2]].id = matrix[t[3]].destination}

\* GROUP BY matrix.origin, matrix.destination: the joined rows of one group.
RelationGroup(geometry, matrix, key) ==
    {t \in RelationJoin(geometry, matrix) :
        <<matrix[t[3]].origin, matrix[t[3]].destination>> = key}

RelationKeys(geometry, matrix) ==
    {<<matrix[t[3]].origin, matrix[t[3]].destination>> : t \in RelationJoin(geometry, matrix)}

\* sql_query_relations: the rows it inserts, one per group. first[key] is the
\* joined row that ARRAY_AGG(...)[1] happens to put first in the group.
sql_query_relations(geometry, matrix, first) ==
    {[layer_id |-> "result_layer_relation",
      geom |-> ST_MakeLine(ST_CENTROID(geometry[first[key][1]].geom),
                           ST_CENTROID(geometry[first[key][2]].geom)),
      origin |-> matrix[first[key][3]].origin,
      destination |-> matrix[first[key][3]].destination,
      weight |-> SumOver(RelationGroup(geometry, matrix, key),
                         [t \in RelationGroup(geometry, matrix, key) |-> matrix[t[3]].weight])] :
        key \in RelationKeys(geometry, matrix)}

\* WITH grouped AS (SELECT g.uid, SUM(m.weight) FROM temp_geometry g,
\* temp_matrix m WHERE g.uid = m.destination GROUP BY g.uid)
PointsGrouped(geometry, matrix) ==
    LET join == {t \in (DOMAIN geometry) \X (DOMAIN matrix) :
                    geometry[t[1]].id = matrix[t[2]].destination}
        uids == {geometry[t[1]].id : t \in join}
    IN  [u \in uids |->
            SumOver({t \in join : geometry[t[1]].id = u},
                    [t \in join |-> matrix[t[2]].weight])]

\* sql_query_points: SELECT layer id, ST_CENTROID(g.geom), gg.weight
\* FROM temp_geometry g, grouped gg WHERE g.uid = gg.uid; a bag of rows.
sql_query_points(geometry, matrix) ==
    LET gg == PointsGrouped(geometry, matrix)
        hit == {i \in DOMAIN geometry : geometry[i].id \in DOMAIN gg}
        row(i) == [layer_id |-> "result_layer_point",
                   geom |-> ST_CENTROID(geometry[i].geom),
                   weight |-> gg[geometry[i].id]]
    IN  [r \in {row(i) : i \in hit} |-> Cardinality({i \in hit : row(i) = r})]

\* Bound of the slot numbers of the mapped columns.
MaxAttr == 1

\* OgrPostgresType values that prefix the slots of a layer.
Families == {"integer", "bigint", "float", "text"}

\* A slot "<type>_attr<N>" of an attribute mapping, as its two parts.
Slots == Families \X (1..MaxAttr)

\* slot.split("_")[0]
SplitPrefix(slot) == slot[1]

\* type + "_attr" + str(n)
AttrSlot(type, n) == <<type, n>>

\* [OgrPostgresType.Integer, OgrPostgresType.Real, OgrPostgresType.Integer64]
NumericFamilies == {"integer", "float", "bigint"}

\* The comparison with the unique id left out.
IdColumnsDifferMatrixOnly(columns) ==
    Cardinality({SplitPrefix(columns.origin), SplitPrefix(columns.destination)}) > 1

\* len({unique_id prefix, origin prefix, destination prefix}) > 1
IdColumnsDiffer(columns) ==
    Cardinality({SplitPrefix(columns.unique_id), SplitPrefix(columns.origin),
                 SplitPrefix(columns.destination)}) > 1

\* mapped_weight_column.split("_")[0] not in [Integer, Real, Integer64]
WeightNotNumeric(columns) == SplitPrefix(columns.weight) \notin NumericFamilies

\* key in d, for a dict kept as its <<key, value>> items in insertion order.
HasKey(d, k) == \E i \in DOMAIN d : d[i][1] = k

\* d[k] = v
SetItem(d, k, v) ==
    IF HasKey(d, k)
    THEN [i \in DOMAIN d |-> IF d[i][1] = k THEN <<k, v>> ELSE d[i]]
    ELSE Append(d, <<k, v>>)

RECURSIVE ProbeAttr(_, _, _)
\* while type + f"_attr{count_attr}" in d: count_attr += 1
ProbeAttr(d, type, count_attr) ==
    IF HasKey(d, AttrSlot(type, count_attr))
    THEN ProbeAttr(d, type, count_attr + 1)
    ELSE count_attr

\* The probe left out: the weight takes attr1 of its type whatever is there.
WeightSlotNoProbe(d, type) == AttrSlot(type, 1)

\* The slot the weight gets in attribute_mapping_relation.
WeightSlot(d, type) ==
    IF ~HasKey(d, AttrSlot(type, 1))
    THEN AttrSlot(type, 1)
    ELSE AttrSlot(type, ProbeAttr(d, type, 1))

\* attribute_mapping_relation
attribute_mapping_relation(columns) ==
    LET ids == <<<<AttrSlot(SplitPrefix(columns.unique_id), 1), "origin">>,
                 <<AttrSlot(SplitPrefix(columns.unique_id), 2), "destination">>>>
    IN  SetItem(ids, WeightSlot(ids, SplitPrefix(columns.weight)), "weight")

\* The mapped columns of a request whose layers are of integer ids and
\* float weights.
DefaultColumns ==
    [unique_id |-> AttrSlot("integer", 1), origin |-> AttrSlot("integer", 1),
     destination |-> AttrSlot("integer", 1), weight |-> AttrSlot("float", 1)]

\* Requests: every combination of mapped columns on one pair of layers, and
\* every pair of layers under the default columns.
OdRequests ==
    {[columns |-> c, geometry |-> g, matrix |-> m] :
        c \in [unique_id : Slots, origin : Slots, destination : Slots, weight : Slots],
        g \in {[i \in 1..2 |-> [id |-> i, geom |-> i]]},
        m \in {<<[origin |-> 1, destination |-> 2, weight |-> 1]>>}}
    \cup
    {[columns |-> DefaultColumns, geometry |-> g, matrix |-> m] :
        g \in GeometryLayers, m \in MatrixLayers}

OdInit ==
    /\ odIn \in OdRequests
    /\ odPc = "check_column_types"
    /\ odMapping = <<>>
    /\ odTemp = {}
    /\ odRelation = {}
    /\ odPoint = EmptyBag

\* The two checks of the mapped columns; ColumnTypeError leaves the function.
column_type_checks ==
    /\ odPc = "check_column_types"
    /\ odPc' = IF IdColumnsDiffer(odIn.columns) \/ WeightNotNumeric(odIn.columns)
               THEN "ColumnTypeError" ELSE "attribute_mapping"
    /\ UNCHANGED <<odIn, odMapping, odTemp, odRelation, odPoint>>

\* result_layer_point and result_layer_relation are built.
build_result_layers ==
    /\ odPc = "attribute_mapping"
    /\ odMapping' = attribute_mapping_relation(odIn.columns)
    /\ odPc' = "create_temp_table_layer"
    /\ UNCHANGED <<odIn, odTemp, odRelation, odPoint>>

\* The temp copies of the geometry and of the matrix layer, with their
\* indexes, each committed.
create_temp_table_layers ==
    /\ odPc = "create_temp_table_layer"
    /\ odTemp' = {"temp_geometry_layer", "temp_origin_destination_matrix_layer"}
    /\ odPc' = "sql_query_relations"
    /\ UNCHANGED <<odIn, odMapping, odRelation, odPoint>>

\* await self.async_session.execute(sql_query_relations)
execute_sql_query_relations ==
    /\ odPc = "sql_query_relations"
    /\ \E first \in [RelationKeys(odIn.geometry, odIn.matrix) ->
                        RelationJoin(odIn.geometry, odIn.matrix)] :
          /\ \A key \in DOMAIN first :
                first[key] \in RelationGroup(odIn.geometry, odIn.matrix, key)
          /\ odRelation' = odRelation \cup sql_query_relations(odIn.geometry, odIn.matrix, first)
    /\ odPc' = "sql_query_points"
    /\ UNCHANGED <<odIn, odMapping, odTemp, odPoint>>

\* await self.async_session.execute(sql_query_points)
execute_sql_query_points ==
    /\ odPc = "sql_query_points"
    /\ odPoint' = odPoint (+) sql_query_points(odIn.geometry, odIn.matrix)
    /\ odPc' = "create_layers"
    /\ UNCHANGED <<odIn, odMapping, odTemp, odRelation>>

InitOD == JobsIdle /\ IsoIdle /\ OdInit /\ AggIdle /\ CntIdle /\ DispIdle /\ MapIdle /\ UpIdle /\ UsrIdle

OdStep == UNCHANGED <<jobVars, isoVars, aggVars, cntVars, dispVars, mapVars, upVars, usrVars>>

NextOD ==
    \/ column_type_checks /\ OdStep
    \/ build_result_layers /\ OdStep
    \/ create_temp_table_layers /\ OdStep
    \/ execute_sql_query_relations /\ OdStep
    \/ execute_sql_query_points /\ OdStep

SpecOD == InitOD /\ [][NextOD]_vars

(***************************************************************************)
(* Aggregation on data (SpecAgg): aggregate_point and aggregate_polygon    *)
(* on a small plane of four patches of equal area.  A geometry is the set  *)
(* of the patches it covers, the two hexagonal cells of the requested      *)
(* resolution are A = {1, 2} and B = {3, 4}, and every patch lies in the   *)
(* same coarse partition.  Statistics of aggregate_polygon are numerics    *)
(* and are held in halves (the value 3 is stored as 6), which is exact for *)
(* the areas that occur.                                                   *)
(***************************************************************************)
MaxSource == 2

\* The SQL NULL of an unmatched LEFT JOIN: a value no statistic takes.
NULL == -1

Cells == {"A", "B"}

PointGeoms == {{2}, {4}}

PolygonGeoms == {{1}, {2, 3}, {3, 4}}

\* The zone layers: one zone, two overlapping zones, two disjoint zones.
ZoneLayers ==
    { <<[geom |-> {1, 2}]>>,
      <<[geom |-> {1, 2}], [geom |-> {2, 3}]>>,
      <<[geom |-> {1, 2}], [geom |-> {3, 4}]>> }

\* Value of the statistics field and value of the group-by field of a row.
Attributes == {<<1, "x">>, <<2, "x">>, <<1, "y">>}

Features(geoms) ==
    {[geom |-> g, val |-> a[1], grp |-> a[2]] : g \in geoms, a \in Attributes}

SourceLayers(geoms) == SeqsUpTo(Features(geoms), MaxSource)

h3_cell_to_boundary(c) == IF c = "A" THEN {1, 2} ELSE {3, 4}

h3_lat_lng_to_cell(geom) ==
    CHOOSE c \in Cells : geom \subseteq h3_cell_to_boundary(c)

h3_3(geom) == "p0"

ST_Intersects(a, b) == a \cap b # {}

ST_WITHIN(a, b) == a \subseteq b

ST_INTERSECTION(a, b) == a \cap b

ST_AREA(g) == Cardinality(g)

\* A whole number as a numeric in halves.
Halves(n) == 2 * n

\* ST_AREA(a) / ST_AREA(b), in halves.
AreaRatio(a, b) == (2 * ST_AREA(a)) \div ST_AREA(b)

\* The distributed copies of the source layer and of the zone layer.
temp_source(in) ==
    {[id |-> i, geom |-> in.source[i].geom, val |-> in.source[i].val,
      grp |-> in.source[i].grp, h3_3 |-> h3_3(in.source[i].geom)] :
        i \in DOMAIN in.source}

temp_aggregation(in) ==
    {[id |-> i, geom |-> in.zones[i].geom, h3_3 |-> h3_3(in.zones[i].geom)] :
        i \in DOMAIN in.zones}

\* WHERE ST_Intersects(zone.geom, source.geom) AND zone.h3_3 = source.h3_3
JoinPredicate(z, s) == ST_Intersects(z.geom, s.geom) /\ z.h3_3 = s.h3_3

Joined(in, z) == {s \in temp_source(in) : JoinPredicate(z, s)}

\* The aggregate of the statistics field over the rows S of one group.
get_statistics_sql(operation, S, field) ==
    IF operation = "count" THEN Cardinality(S) ELSE SumOver(S, field)

ValueOf(S) == [s \in S |-> s.val]

\* statistics_column_query of one zone z over its joined rows S.
statistics_column_query(in, z, S) ==
    LET stat == get_statistics_sql(in.operation, S, ValueOf(S)) IN
    IF in.tool = "aggregate_point" THEN stat
    ELSE IF in.weighted
         THEN stat * SumOver(S, [s \in S |->
                  AreaRatio(ST_INTERSECTION(z.geom, s.geom), s.geom)])
         ELSE Halves(stat)

Groups(S) == {s.grp : s \in S}

\* CREATE TABLE total_stats ... GROUP BY temp_aggregation.id
total_stats_zone(in) ==
    {[key |-> z.id, stats |-> statistics_column_query(in, z, Joined(in, z))] :
        z \in {y \in temp_aggregation(in) : Joined(in, y) # {}}}

\* CREATE TABLE grouped_stats ... GROUP BY temp_aggregation.id, group columns
grouped_stats_zone(in) ==
    {[key |-> z.id,
      stats |-> [g \in Groups(Joined(in, z)) |->
                    statistics_column_query(in, z,
                        {s \in Joined(in, z) : s.grp = g})]] :
        z \in {y \in temp_aggregation(in) : Joined(in, y) # {}}}

InCell(in, c) == {s \in temp_source(in) : h3_lat_lng_to_cell(s.geom) = c}

total_stats_h3_per_point(in) ==
    {[key |-> h3_lat_lng_to_cell(s.geom), stats |-> 1] : s \in temp_source(in)}

\* CREATE TABLE total_stats ... GROUP BY h3_lat_lng_to_cell(geom, resolution)
total_stats_h3(in) ==
    {[key |-> c,
      stats |-> get_statistics_sql(in.operation, InCell(in, c),
                                   ValueOf(InCell(in, c)))] :
        c \in {h3_lat_lng_to_cell(s.geom) : s \in temp_source(in)}}

grouped_stats_h3(in) ==
    {[key |-> c,
      stats |-> [g \in Groups(InCell(in, c)) |->
                    get_statistics_sql(in.operation,
                        {s \in InCell(in, c) : s.grp = g},
                        ValueOf(InCell(in, c)))]] :
        c \in {h3_lat_lng_to_cell(s.geom) : s \in temp_source(in)}}

\* statistics_val: "1" for count, the statistics field otherwise.
statistics_val(in, p) == IF in.operation = "count" THEN 1 ELSE p.val

\* CASE WHEN ST_WITHIN(j, p) THEN 1 WHEN ST_Intersects(j, p) THEN
\* ST_AREA(ST_Intersection(j, p)) / ST_AREA(j) ELSE 0 END, in halves.
first_statistic_column_query(j, p) ==
    IF ST_WITHIN(j, p) THEN Halves(1)
    ELSE IF ST_Intersects(j, p) THEN AreaRatio(ST_INTERSECTION(j, p), j)
    ELSE 0

\* CREATE TABLE pre_grouped ... WHERE ST_Intersects(j.geom, p.geom)
\* GROUP BY h3_target, group columns, p.id
pre_grouped(in) ==
    {[h3_target |-> q[1], grp |-> q[2].grp, id |-> q[2].id,
      val |-> statistics_val(in, q[2])
                * first_statistic_column_query(h3_cell_to_boundary(q[1]),
                                               q[2].geom)] :
        q \in {r \in Cells \X temp_source(in) :
                   ST_Intersects(h3_cell_to_boundary(r[1]), r[2].geom)}}

\* statistics_sql over the rows R of the pre-grouped table.
statistics_sql(in, R) ==
    IF in.operation = "count" THEN SumOver(R, [r \in R |-> r.val])
    ELSE get_statistics_sql(in.operation, R, [r \in R |-> r.val])

\* CREATE TABLE total_stats ... FROM pre_grouped GROUP BY h3_target
total_stats_pre_grouped(in, pre) ==
    {[key |-> c, stats |-> statistics_sql(in, {r \in pre : r.h3_target = c})] :
        c \in {r.h3_target : r \in pre}}

grouped_stats_pre_grouped(in, pre) ==
    {[key |-> c,
      stats |-> [g \in {r.grp : r \in {x \in pre : x.h3_target = c}} |->
                    statistics_sql(in,
                        {r \in pre : r.h3_target = c /\ r.grp = g})]] :
        c \in {r.h3_target : r \in pre}}

\* first_join: FROM grouped_stats g, total_stats t WHERE g.id = t.id
first_join(total, grouped) ==
    {[key |-> q[1].key, total_stats |-> q[1].stats,
      grouped_stats |-> q[2].stats] :
        q \in {r \in total \X grouped : r[1].key = r[2].key}}

\* t.stats of the row of table t that LEFT JOIN ... ON id pairs with key k.
LeftJoin(t, k, column) ==
    IF \E r \in t : r.key = k
    THEN (CHOOSE r \in t : r.key = k)[column]
    ELSE NULL

\* INSERT ... FROM the zone layer LEFT JOIN first_join / total_stats
sql_query_zone(in, total, grouped) ==
    {[layer_id |-> "layer_in", geom |-> in.zones[i].geom, key |-> i,
      total_stats |->
          IF in.grouped
          THEN LeftJoin(first_join(total, grouped), i, "total_stats")
          ELSE LeftJoin(total, i, "stats"),
      grouped_stats |->
          IF in.grouped
          THEN LeftJoin(first_join(total, grouped), i, "grouped_stats")
          ELSE NULL] :
        i \in DOMAIN in.zones}

\* INSERT ... FROM total_stats t [, grouped_stats g WHERE the keys are equal]
sql_query_h3(in, total, grouped) ==
    IF in.grouped
    THEN {[layer_id |-> "layer_in", geom |-> h3_cell_to_boundary(f.key),
           key |-> f.key, total_stats |-> f.total_stats,
           grouped_stats |-> f.grouped_stats] :
             f \in first_join(total, grouped)}
    ELSE {[layer_id |-> "layer_in", geom |-> h3_cell_to_boundary(t.key),
           key |-> t.key, total_stats |-> t.stats,
           grouped_stats |-> NULL] : t \in total}

\* The requests: every combination of path, grouping, weighting and operation
\* with the statistics field present, and one request per path without it.
PointRequests ==
    {[tool |-> "aggregate_point", zone |-> zl # <<>>, zones |-> zl,
      grouped |-> g, weighted |-> FALSE, operation |-> op, field |-> TRUE,
      source |-> src] :
        zl \in ZoneLayers \cup {<<>>}, g \in BOOLEAN,
        op \in {"count", "sum"}, src \in SourceLayers(PointGeoms)}

PolygonRequests ==
    {[tool |-> "aggregate_polygon", zone |-> zl # <<>>, zones |-> zl,
      grouped |-> g, weighted |-> w, operation |-> op, field |-> TRUE,
      source |-> src] :
        zl \in ZoneLayers \cup {<<>>}, g \in BOOLEAN, w \in BOOLEAN,
        op \in {"count", "sum"}, src \in SourceLayers(PolygonGeoms)}

FieldAbsentRequests ==
    {[r EXCEPT !.field = FALSE] :
        r \in {q \in PointRequests \cup PolygonRequests :
                   /\ Len(q.source) = 1
                   /\ q.operation = "sum"
                   /\ ~q.weighted}}

AggRequests == PointRequests \cup PolygonRequests \cup FieldAbsentRequests

AggInit ==
    /\ aggIn \in AggRequests
    /\ aggPc = "check_column_statistics"
    /\ aggTemp = {}
    /\ aggPre = {}
    /\ aggTotal = {}
    /\ aggGrouped = {}
    /\ aggRows = {}

check_statistics_field_ignored ==
    /\ aggPc = "check_column_statistics"
    /\ aggPc' = "create_distributed_table"
    /\ UNCHANGED <<aggIn, aggTemp, aggPre, aggTotal, aggGrouped, aggRows>>

\* prepare_aggregation: the statistics field is looked up in the source's
\* attribute mapping before anything else is done with the layers.
check_statistics_field ==
    /\ aggPc = "check_column_statistics"
    /\ aggPc' = IF aggIn.field THEN "create_distributed_table"
                ELSE "ColumnNotFoundError"
    /\ UNCHANGED <<aggIn, aggTemp, aggPre, aggTotal, aggGrouped, aggRows>>

\* prepare_aggregation: the distributed copy of the source layer and, with a
\* zone layer, of the zone layer.
distributed_tables ==
    /\ aggPc = "create_distributed_table"
    /\ aggTemp' = aggTemp \cup {"temp_source"}
                     \cup (IF aggIn.zone THEN {"temp_aggregation"} ELSE {})
    /\ aggPc' = IF aggIn.tool = "aggregate_polygon" /\ ~aggIn.zone
                THEN "sql_query_pre_grouped"
                ELSE "sql_query_total_stats"
    /\ UNCHANGED <<aggIn, aggPre, aggTotal, aggGrouped, aggRows>>

\* aggregate_polygon on the hexagonal grid: statistics_val, statistics_sql and
\* first_statistic_column_query are assigned only when the request weights by
\* intersecting area, and the text of the query reads them in any case.
sql_query_pre_grouped ==
    /\ aggPc = "sql_query_pre_grouped"
    /\ IF aggIn.weighted
       THEN /\ aggPre' = pre_grouped(aggIn)
            /\ aggTemp' = aggTemp \cup {"pre_grouped"}
            /\ aggPc' = "sql_query_total_stats"
       ELSE /\ aggPc' = "UnboundLocalError"
            /\ UNCHANGED <<aggPre, aggTemp>>
    /\ UNCHANGED <<aggIn, aggTotal, aggGrouped, aggRows>>

sql_query_total_stats ==
    /\ aggPc = "sql_query_total_stats"
    /\ aggTotal' = IF aggIn.zone THEN total_stats_zone(aggIn)
                   ELSE IF aggIn.tool = "aggregate_point"
                        THEN total_stats_h3(aggIn)
                        ELSE total_stats_pre_grouped(aggIn, aggPre)
    /\ aggTemp' = aggTemp \cup {"total_stats"}
    /\ aggPc' = IF aggIn.grouped THEN "sql_query_group_stats"
                ELSE "sql_query_combine"
    /\ UNCHANGED <<aggIn, aggPre, aggGrouped, aggRows>>

sql_query_group_stats ==
    /\ aggPc = "sql_query_group_stats"
    /\ aggGrouped' = IF aggIn.zone THEN grouped_stats_zone(aggIn)
                     ELSE IF aggIn.tool = "aggregate_point"
                          THEN grouped_stats_h3(aggIn)
                          ELSE grouped_stats_pre_grouped(aggIn, aggPre)
    /\ aggTemp' = aggTemp \cup {"grouped_stats"}
    /\ aggPc' = "sql_query_combine"
    /\ UNCHANGED <<aggIn, aggPre, aggTotal, aggRows>>

\* The INSERT into the result table.
sql_query_combine ==
    /\ aggPc = "sql_query_combine"
    /\ aggRows' = IF aggIn.zone
                  THEN sql_query_zone(aggIn, aggTotal, aggGrouped)
                  ELSE sql_query_h3(aggIn, aggTotal, aggGrouped)
    /\ aggPc' = "create_feature_layer_tool"
    /\ UNCHANGED <<aggIn, aggTemp, aggPre, aggTotal, aggGrouped>>

InitAgg == JobsIdle /\ IsoIdle /\ OdIdle /\ AggInit /\ CntIdle /\ DispIdle /\ MapIdle /\ UpIdle /\ UsrIdle

AggStep == UNCHANGED <<jobVars, isoVars, odVars, cntVars, dispVars, mapVars, upVars, usrVars>>

NextAgg ==
    \/ check_statistics_field /\ AggStep
    \/ distributed_tables /\ AggStep
    \/ sql_query_pre_grouped /\ AggStep
    \/ sql_query_total_stats /\ AggStep
    \/ sql_query_group_stats /\ AggStep
    \/ sql_query_combine /\ AggStep

SpecAgg == InitAgg /\ [][NextAgg]_vars

(***************************************************************************)
(* The feature count check (SpecCnt): CRUDLayer.get_feature_cnt and        *)
(* check_exceed_feature_cnt.  A row carries its layer id and one           *)
(* attribute; a where query is one of a few conditions on these two.       *)
(***************************************************************************)
MaxRows == 3

MaxCnt == 2

CntRows == [layer_id : {"L", "M"}, attr : {0, 1}]

\* The conditions a where query states (build_where and the layer's own
\* where_query name the layer id first); "None" and "" are no query.
Conditions == {"layer_id = 'L'", "layer_id = 'L' AND attr = 1"}

\* The row satisfies the condition.
Satisfies(row, condition) ==
    CASE condition = "layer_id = 'L'" -> row.layer_id = "L"
      [] condition = "layer_id = 'L' AND attr = 1" ->
            row.layer_id = "L" /\ row.attr = 1
      [] OTHER -> FALSE

\* build_where_clause: the queries that are not empty, joined under WHERE;
\* None when there is none.
build_where_clause(queries) ==
    LET kept == SelectSeq(queries, LAMBDA q : q \notin {"None", ""}) IN
    IF kept = <<>> THEN "None" ELSE kept[1]

\* SELECT COUNT(*) FROM table WHERE layer_id = 'L'
total_count(table) ==
    Cardinality({i \in DOMAIN table : table[i].layer_id = "L"})

\* SELECT COUNT(*) FROM table {where_query}
filtered_count(table, where_query) ==
    Cardinality({i \in DOMAIN table : Satisfies(table[i], where_query)})

\* The where query the count uses: the given one, else the layer's own.
where_query_used(in) ==
    IF in.where_query \in {"None", ""}
    THEN build_where_clause(<<in.layer_where_query>>)
    ELSE build_where_clause(<<in.where_query>>)

cnt_to_check_if_truthy(cnt) ==
    IF "filtered_count" \in DOMAIN cnt /\ cnt.filtered_count # 0
    THEN cnt.filtered_count
    ELSE cnt.total_count

\* cnt_to_check: filtered_count when the dict holds one, else total_count.
cnt_to_check(cnt) ==
    IF "filtered_count" \in DOMAIN cnt THEN cnt.filtered_count
    ELSE cnt.total_count

CntRequests ==
    [table : SeqsUpTo(CntRows, MaxRows),
     where_query : {"None", ""} \cup Conditions,
     layer_where_query : {"None"} \cup Conditions,
     max_feature_cnt : 0..MaxCnt]

CntInit ==
    /\ cntIn \in CntRequests
    /\ cntPc = "total_count"
    /\ cntTable = cntIn.table
    /\ feature_cnt = <<>>

\* get_feature_cnt: the total count of the layer.
get_total_count ==
    /\ cntPc = "total_count"
    /\ feature_cnt' = [total_count |-> total_count(cntTable)]
    /\ cntPc' = "filtered_count"
    /\ UNCHANGED <<cntIn, cntTable>>

\* get_feature_cnt: the filtered count, when there is a where query.
get_filtered_count ==
    /\ cntPc = "filtered_count"
    /\ feature_cnt' =
          IF where_query_used(cntIn) # "None"
          THEN [total_count |-> feature_cnt.total_count,
                filtered_count |->
                    filtered_count(cntTable, where_query_used(cntIn))]
          ELSE feature_cnt
    /\ cntPc' = "cnt_to_check"
    /\ UNCHANGED <<cntIn, cntTable>>

\* check_exceed_feature_cnt: raise HTTP 422 or return feature_cnt.
check_exceed ==
    /\ cntPc = "cnt_to_check"
    /\ cntPc' = IF cnt_to_check(feature_cnt) > cntIn.max_feature_cnt
                THEN "HTTP_422_UNPROCESSABLE_ENTITY"
                ELSE "return"
    /\ UNCHANGED <<cntIn, cntTable, feature_cnt>>

InitCnt == JobsIdle /\ IsoIdle /\ OdIdle /\ AggIdle /\ CntInit /\ DispIdle /\ MapIdle /\ UpIdle /\ UsrIdle

CntStep == UNCHANGED <<jobVars, isoVars, odVars, aggVars, dispVars, mapVars, upVars, usrVars>>

NextCnt ==
    \/ get_total_count /\ CntStep
    \/ get_filtered_count /\ CntStep
    \/ check_exceed /\ CntStep

SpecCnt == InitCnt /\ [][NextCnt]_vars

(***************************************************************************)
(* Dispatch (SpecDispatch): run_background_or_immediately(settings), the   *)
(* decorator of every tool's run method.  A request runs inline or as a    *)
(* detached background task; at the cap it is held back or turned away.    *)
(***************************************************************************)
MAX_NUMBER_PARALLEL_JOBS == 6

MaxRequests == 8

\* The cap counts one job more than the configured maximum.
AtCapOffByOne == dispRunning >= MAX_NUMBER_PARALLEL_JOBS + 1

\* The number of running background jobs has reached the configured maximum.
AtCap == dispRunning >= MAX_NUMBER_PARALLEL_JOBS

DispInit ==
    /\ dispSetting \in BOOLEAN
    /\ dispArrived = 0
    /\ dispInline = 0
    /\ dispRunning = 0
    /\ dispWaiting = 0
    /\ dispRejected = 0
    /\ dispDone = 0

\* A request arrives with RUN_AS_BACKGROUND_TASK off: the caller awaits it.
run_immediately ==
    /\ ~dispSetting
    /\ dispArrived < MaxRequests
    /\ dispArrived' = dispArrived + 1
    /\ dispInline' = dispInline + 1
    /\ UNCHANGED <<dispSetting, dispRunning, dispWaiting, dispRejected, dispDone>>

\* A request arrives below the cap: it starts as a detached background task.
run_background ==
    /\ dispSetting
    /\ ~AtCap
    /\ dispArrived < MaxRequests
    /\ dispArrived' = dispArrived + 1
    /\ dispRunning' = dispRunning + 1
    /\ UNCHANGED <<dispSetting, dispInline, dispWaiting, dispRejected, dispDone>>

\* A request arrives at the cap: it is held back.
hold_back ==
    /\ dispSetting
    /\ AtCap
    /\ dispArrived < MaxRequests
    /\ dispArrived' = dispArrived + 1
    /\ dispWaiting' = dispWaiting + 1
    /\ UNCHANGED <<dispSetting, dispInline, dispRunning, dispRejected, dispDone>>

\* A request arrives at the cap: it is turned away.
reject ==
    /\ dispSetting
    /\ AtCap
    /\ dispArrived < MaxRequests
    /\ dispArrived' = dispArrived + 1
    /\ dispRejected' = dispRejected + 1
    /\ UNCHANGED <<dispSetting, dispInline, dispRunning, dispWaiting, dispDone>>

\* An inline request returns to its caller.
inline_returns ==
    /\ dispInline > 0
    /\ dispInline' = dispInline - 1
    /\ UNCHANGED <<dispSetting, dispArrived, dispRunning, dispWaiting, dispRejected, dispDone>>

\* A background job ends.
background_ends ==
    /\ dispRunning > 0
    /\ dispRunning' = dispRunning - 1
    /\ dispDone' = dispDone + 1
    /\ UNCHANGED <<dispSetting, dispArrived, dispInline, dispWaiting, dispRejected>>

\* A request that was held back starts once there is room below the cap.
start_held_back ==
    /\ dispWaiting > 0
    /\ ~AtCap
    /\ dispWaiting' = dispWaiting - 1
    /\ dispRunning' = dispRunning + 1
    /\ UNCHANGED <<dispSetting, dispArrived, dispInline, dispRejected, dispDone>>

InitDispatch == JobsIdle /\ IsoIdle /\ OdIdle /\ AggIdle /\ CntIdle /\ DispInit /\ MapIdle /\ UpIdle /\ UsrIdle

DispStep == UNCHANGED <<jobVars, isoVars, odVars, aggVars, cntVars, mapVars, upVars, usrVars>>

NextDispatch ==
    \/ run_immediately /\ DispStep
    \/ run_background /\ DispStep
    \/ hold_back /\ DispStep
    \/ reject /\ DispStep
    \/ inline_returns /\ DispStep
    \/ background_ends /\ DispStep
    \/ start_held_back /\ DispStep

SpecDispatch == InitDispatch /\ [][NextDispatch]_vars

(***************************************************************************)
(* The columns of the combine INSERT of aggregate_point and                *)
(* aggregate_polygon: insert_columns of prepare_aggregation and the list   *)
(* of selected values of each branch.  A dict is kept as its <<key,        *)
(* value>> items in insertion order.                                       *)
(***************************************************************************)
\* Attribute mappings of the zone layer.
ZoneMappings ==
    { <<>>,
      << <<AttrSlot("text", 1), "name">> >>,
      << <<AttrSlot("integer", 1), "population">>,
         <<AttrSlot("text", 1), "name">> >> }

\* mapped_statistics_field_type
StatisticsFieldTypes == {"integer", "float"}

\* list(d.keys())
DictKeys(d) == [i \in DOMAIN d |-> d[i][1]]

\* get_result_column: the first free slot of the datatype, for the new column.
get_result_column(mapping, base_column_name, datatype) ==
    << <<AttrSlot(datatype, ProbeAttr(mapping, datatype, 1)),
         base_column_name>> >>

\* attribute_mapping_aggregation: the zone layer's mapping, or the h3 index.
attribute_mapping_aggregation(in, mapping) ==
    IF in.zone THEN mapping
    ELSE << <<AttrSlot("text", 1), "h3_resolution">> >>

\* The grouped column asks for a slot of the statistics field's type.
result_column_grouped_same_type(in, mapping, datatype) ==
    LET am == attribute_mapping_aggregation(in, mapping)
        first == get_result_column(am, in.operation, datatype)
        grouped == get_result_column(am, "grouped", datatype)
    IN IF in.grouped
       THEN SetItem(first, grouped[1][1], grouped[1][2])
       ELSE first

\* result_column, extended with the jsonb column when group-by fields are given.
result_column(in, mapping, datatype) ==
    LET am == attribute_mapping_aggregation(in, mapping)
        first == get_result_column(am, in.operation, datatype)
        grouped == get_result_column(am, "grouped", "jsonb")
    IN IF in.grouped
       THEN SetItem(first, grouped[1][1], grouped[1][2])
       ELSE first

\* INSERT INTO result_table (layer_id, {insert_columns})
insert_columns(in, mapping, datatype) ==
    << <<"layer_id", 0>>, <<"geom", 0>> >>
      \o DictKeys(attribute_mapping_aggregation(in, mapping))
      \o DictKeys(result_column(in, mapping, datatype))

\* The values the SELECT of the INSERT yields, in order.
selected_values(in, mapping) ==
    IF in.zone
    THEN << [kind |-> "layer_id", of |-> <<"layer_in", 0>>],
            [kind |-> "geom", of |-> <<"zone", 0>>] >>
           \o [i \in DOMAIN mapping |->
                 [kind |-> "attribute", of |-> mapping[i][1]]]
           \o << [kind |-> "total_stats", of |-> <<"stats", 0>>] >>
           \o (IF in.grouped
               THEN << [kind |-> "grouped_stats", of |-> <<"stats", 0>>] >>
               ELSE <<>>)
    ELSE << [kind |-> "layer_id", of |-> <<"layer_in", 0>>],
            [kind |-> "geom", of |-> <<"h3_cell_to_boundary", 0>>],
            [kind |-> "attribute", of |-> AttrSlot("text", 1)],
            [kind |-> "total_stats", of |-> <<"stats", 0>>] >>
           \o (IF in.grouped
               THEN << [kind |-> "grouped_stats", of |-> <<"stats", 0>>] >>
               ELSE <<>>)

(***************************************************************************)
(* The attribute mapping of import_file (SpecImportMap): the two loops     *)
(* over file_metadata["data_types"]["valid"] and the inversion of the      *)
(* mapping for create_internal.                                            *)
(***************************************************************************)
MaxFields == 2

FieldNames == {"id", "a", "b", "c"}

FieldTypes == {"integer", "text"}

Distinct(q) == \A i, k \in DOMAIN q : i # k => q[i] # q[k]

\* The names of the fields of one type: a field is listed once.
NameLists == {q \in SeqsUpTo(FieldNames, MaxFields) : Distinct(q)}

\* The valid data types of a file: each field type once, each field of the
\* file under one type.
ValidDataTypes ==
    {d \in SeqsUpTo(FieldTypes \X NameLists, 2) :
        /\ Distinct([i \in DOMAIN d |-> d[i][1]])
        /\ \A i, k \in DOMAIN d :
              i # k => \A x \in DOMAIN d[i][2], y \in DOMAIN d[k][2] :
                          d[i][2][x] # d[k][2][y]}

MapInit ==
    /\ mapIn \in ValidDataTypes
    /\ mapPc = "for_field_type"
    /\ mapType = 0
    /\ mapField = 0
    /\ mapCnt = 0
    /\ attribute_mapping = <<>>
    /\ stored_mapping = <<>>

\* for field_type, field_names in ...items(): cnt = 1
next_field_type ==
    /\ mapPc = "for_field_type"
    /\ IF mapType < Len(mapIn)
       THEN /\ mapType' = mapType + 1
            /\ mapField' = 0
            /\ mapCnt' = 1
            /\ mapPc' = "for_field_name"
       ELSE /\ mapPc' = "invert"
            /\ UNCHANGED <<mapType, mapField, mapCnt>>
    /\ UNCHANGED <<mapIn, attribute_mapping, stored_mapping>>

\* The inner loop counts the field named id as well.
map_field_counting_id ==
    /\ mapPc = "for_field_name"
    /\ IF mapField < Len(mapIn[mapType][2])
       THEN LET field_name == mapIn[mapType][2][mapField + 1] IN
            /\ mapField' = mapField + 1
            /\ attribute_mapping' =
                  IF field_name = "id" THEN attribute_mapping
                  ELSE SetItem(attribute_mapping, field_name,
                               AttrSlot(mapIn[mapType][1], mapCnt))
            /\ mapCnt' = mapCnt + 1
            /\ mapPc' = mapPc
       ELSE /\ mapPc' = "for_field_type"
            /\ UNCHANGED <<mapField, attribute_mapping, mapCnt>>
    /\ UNCHANGED <<mapIn, mapType, stored_mapping>>

\* for field_name in field_names: skip id, else map the field to the next
\* slot of its type.
map_field ==
    /\ mapPc = "for_field_name"
    /\ IF mapField < Len(mapIn[mapType][2])
       THEN LET field_name == mapIn[mapType][2][mapField + 1] IN
            /\ mapField' = mapField + 1
            /\ IF field_name = "id"
               THEN UNCHANGED <<attribute_mapping, mapCnt>>
               ELSE /\ attribute_mapping' =
                          SetItem(attribute_mapping, field_name,
                                  AttrSlot(mapIn[mapType][1], mapCnt))
                    /\ mapCnt' = mapCnt + 1
            /\ mapPc' = mapPc
       ELSE /\ mapPc' = "for_field_type"
            /\ UNCHANGED <<mapField, attribute_mapping, mapCnt>>
    /\ UNCHANGED <<mapIn, mapType, stored_mapping>>

RECURSIVE InvertItems(_, _)
\* {value: key for key, value in d.items()}, item by item.
InvertItems(d, acc) ==
    IF d = <<>> THEN acc
    ELSE InvertItems(Tail(d), SetItem(acc, d[1][2], d[1][1]))

\* attribute_mapping = {value: key for key, value in attribute_mapping.items()}
invert_mapping ==
    /\ mapPc = "invert"
    /\ stored_mapping' = InvertItems(attribute_mapping, <<>>)
    /\ mapPc' = "create_internal"
    /\ UNCHANGED <<mapIn, mapType, mapField, mapCnt, attribute_mapping>>

InitImportMap ==
    JobsIdle /\ IsoIdle /\ OdIdle /\ AggIdle /\ CntIdle /\ DispIdle /\ MapInit /\ UpIdle /\ UsrIdle

MapStep == UNCHANGED <<jobVars, isoVars, odVars, aggVars, cntVars, dispVars, upVars, usrVars>>

NextImportMap ==
    \/ next_field_type /\ MapStep
    \/ map_field /\ MapStep
    \/ invert_mapping /\ MapStep

SpecImportMap == InitImportMap /\ [][NextImportMap]_vars

(***************************************************************************)
(* CRUDLayer.upload_file                                                   *)
(***************************************************************************)
\* Uploads a client sends one after the other.
MaxUploads == 3

UpInit == UpIdle

\* dataset_id = uuid4(); file_upload = FileUpload(...)
upload_file ==
    /\ upPc = "idle"
    /\ Len(upResponse) < MaxUploads
    /\ upId' = Len(upResponse) + 1
    /\ upPc' = "save_file"
    /\ validation_result' = "none"
    /\ UNCHANGED <<upFiles, upMetadata, upResponse>>

\* FileUpload.save_file_fail(): removes what save_file left of the upload.
save_file_fail == upFiles' = upFiles \ {upId}

\* raise HTTPException(status_code): the upload ends with that response.
RaiseHTTPException(code) ==
    /\ upResponse' = Append(upResponse, code)
    /\ upPc' = "idle"
    /\ upId' = 0

\* file_path = await asyncio.wait_for(file_upload.save_file(file=file), timeout)
save_file ==
    /\ upPc = "save_file"
    /\ upFiles' = upFiles \cup {upId}
    /\ upPc' = "validate"
    /\ UNCHANGED <<upId, upMetadata, validation_result, upResponse>>

\* except asyncio.TimeoutError: save_file_fail(); raise 408. What save_file had
\* written when the time was up is removed.
save_file_timeout ==
    /\ upPc = "save_file"
    /\ save_file_fail
    /\ RaiseHTTPException(408)
    /\ UNCHANGED <<upMetadata, validation_result>>

\* except Exception: save_file_fail(); raise 500
save_file_raises ==
    /\ upPc = "save_file"
    /\ save_file_fail
    /\ RaiseHTTPException(500)
    /\ UNCHANGED <<upMetadata, validation_result>>

\* validation_result = await asyncio.wait_for(ogr_file_handling.validate(), timeout)
validate ==
    /\ upPc = "validate"
    /\ \E st \in {"finished", "failed"} : validation_result' = st
    /\ upPc' = "check_validation"
    /\ UNCHANGED <<upId, upFiles, upMetadata, upResponse>>

\* except asyncio.TimeoutError: raise 408
validate_timeout ==
    /\ upPc = "validate"
    /\ RaiseHTTPException(408)
    /\ UNCHANGED <<upFiles, upMetadata, validation_result>>

\* except Exception: raise 500
validate_raises ==
    /\ upPc = "validate"
    /\ RaiseHTTPException(500)
    /\ UNCHANGED <<upFiles, upMetadata, validation_result>>

\* if validation_result.get("status") == "failed": save_file_fail(); raise 422
validation_failed ==
    /\ upPc = "check_validation"
    /\ validation_result = "failed"
    /\ save_file_fail
    /\ RaiseHTTPException(422)
    /\ UNCHANGED <<upMetadata, validation_result>>

\* metadata.json is written beside the saved file and the metadata returned.
write_metadata ==
    /\ upPc = "check_validation"
    /\ validation_result # "failed"
    /\ upMetadata' = upMetadata \cup {upId}
    /\ upResponse' = Append(upResponse, 200)
    /\ upPc' = "idle"
    /\ upId' = 0
    /\ UNCHANGED <<upFiles, validation_result>>

InitUpload ==
    JobsIdle /\ IsoIdle /\ OdIdle /\ AggIdle /\ CntIdle /\ DispIdle /\ MapIdle /\ UpInit /\ UsrIdle

UpStep == UNCHANGED <<jobVars, isoVars, odVars, aggVars, cntVars, dispVars, mapVars, usrVars>>

NextUpload ==
    \/ upload_file /\ UpStep
    \/ save_file /\ UpStep
    \/ save_file_timeout /\ UpStep
    \/ save_file_raises /\ UpStep
    \/ validate /\ UpStep
    \/ validate_timeout /\ UpStep
    \/ validate_raises /\ UpStep
    \/ validation_failed /\ UpStep
    \/ write_metadata /\ UpStep

SpecUpload == InitUpload /\ [][NextUpload]_vars

(***************************************************************************)
(* endpoints/v2/user.py: create_user, delete_user                          *)
(***************************************************************************)
\* Calls of the two endpoints, one after the other.
MaxCalls == 4

UserIds == {"u1", "u2"}

UsrInit == UsrIdle

\* The endpoint returns or raises: the call ends with that HTTP status.
Respond(endpoint, code) ==
    /\ usrResponse' = Append(usrResponse, <<endpoint, usrId, code>>)
    /\ usrPc' = "idle"
    /\ usrId' = ""

\* POST: user = await crud_user.get(async_session, id=user_id)
create_user ==
    /\ usrPc = "idle"
    /\ Len(usrResponse) < MaxCalls
    /\ \E u \in UserIds : usrId' = u
    /\ usrPc' = "create_get"
    /\ UNCHANGED <<userRecords, userTables, userFolders, usrResponse>>

\* if user: raise HTTPException(409)
create_user_conflict ==
    /\ usrPc = "create_get"
    /\ usrId \in userRecords
    /\ Respond("create_user", 409)
    /\ UNCHANGED <<userRecords, userTables, userFolders>>

\* else: await crud_user.create_user_data_tables(async_session, user_id=user_id)
create_user_data_tables ==
    /\ usrPc = "create_get"
    /\ usrId \notin userRecords
    /\ userTables' = userTables \cup {usrId}
    /\ usrPc' = "create_record"
    /\ UNCHANGED <<usrId, userRecords, userFolders, usrResponse>>

\* crud_user.delete_user_data_tables(async_session, user_id)
delete_user_data_tables == userTables' = userTables \ {usrId}

\* except Exception: delete_user_data_tables(...); raise HTTPException(500)
create_user_except ==
    /\ delete_user_data_tables
    /\ Respond("create_user", 500)

\* user = await crud_user.create(async_session, obj_in=User(id=user_id))
crud_user_create ==
    /\ usrPc = "create_record"
    /\ userRecords' = userRecords \cup {usrId}
    /\ usrPc' = "create_folder"
    /\ UNCHANGED <<usrId, userTables, userFolders, usrResponse>>

\* crud_user.create raises: no record is stored.
crud_user_create_raises ==
    /\ usrPc = "create_record"
    /\ create_user_except
    /\ UNCHANGED <<userRecords, userFolders>>

\* await crud_folder.create(async_session, obj_in=folder); return user
crud_folder_create ==
    /\ usrPc = "create_folder"
    /\ userFolders' = userFolders \cup {usrId}
    /\ Respond("create_user", 201)
    /\ UNCHANGED <<userRecords, userTables>>

\* crud_folder.create raises: no folder is stored; the record crud_user.create
\* stored is not touched by the handler.
crud_folder_create_raises ==
    /\ usrPc = "create_folder"
    /\ create_user_except
    /\ UNCHANGED <<userRecords, userFolders>>

\* DELETE: user = await crud_user.get(async_session, id=user_id)
delete_user ==
    /\ usrPc = "idle"
    /\ Len(usrResponse) < MaxCalls
    /\ \E u \in UserIds : usrId' = u
    /\ usrPc' = "delete_get"
    /\ UNCHANGED <<userRecords, userTables, userFolders, usrResponse>>

\* else: raise HTTPException(404)
delete_user_not_found ==
    /\ usrPc = "delete_get"
    /\ usrId \notin userRecords
    /\ Respond("delete_user", 404)
    /\ UNCHANGED <<userRecords, userTables, userFolders>>

\* if user: crud_user.remove(...); crud_user.delete_user_data_tables(...); return
delete_user_remove ==
    /\ usrPc = "delete_get"
    /\ usrId \in userRecords
    /\ userRecords' = userRecords \ {usrId}
    /\ userFolders' = userFolders \ {usrId}
    /\ delete_user_data_tables
    /\ Respond("delete_user", 204)

InitUser ==
    JobsIdle /\ IsoIdle /\ OdIdle /\ AggIdle /\ CntIdle /\ DispIdle /\ MapIdle /\ UpIdle /\ UsrInit

UsrStep == UNCHANGED <<jobVars, isoVars, odVars, aggVars, cntVars, dispVars, mapVars, upVars>>

NextUser ==
    \/ create_user /\ UsrStep
    \/ create_user_conflict /\ UsrStep
    \/ create_user_data_tables /\ UsrStep
    \/ crud_user_create /\ UsrStep
    \/ crud_user_create_raises /\ UsrStep
    \/ crud_folder_create /\ UsrStep
    \/ crud_folder_create_raises /\ UsrStep
    \/ delete_user /\ UsrStep
    \/ delete_user_not_found /\ UsrStep
    \/ delete_user_remove /\ UsrStep

SpecUser == InitUser /\ [][NextUser]_vars

(***************************************************************************)
(* Properties of the jobs (checked under Spec)                             *)
(***************************************************************************)
Range(f) == {f[i] : i \in DOMAIN f}

\* Index of the first occurrence of x in sequence q (0 when absent).
IndexOf(q, x) ==
    IF x \in Range(q) THEN CHOOSE i \in DOMAIN q : q[i] = x /\ \A k \in 1..(i - 1) : q[k] # x
    ELSE 0

QueryTools == AggregationTools \cup {"origin_destination"}

\* The steps a tool declares, in call order.
DeclaredSteps(t) ==
    IF t = "import_file" THEN <<"upload_ogr2ogr", "migrate_target_table">>
    ELSE <<job_step_name(t)>>

TypeOK ==
    /\ status \in [Jobs -> {"pending", "running"} \cup Terminal]
    /\ result \in [Jobs -> {"none"} \cup Terminal]
    /\ \A j \in Jobs : InStep(j) => status[j] = "running"
    /\ temp \subseteq UNION {created[j] : j \in Jobs}

\* C1: a job of aggregate_point, aggregate_polygon or origin_destination that
\* ends failed, timeout or killed leaves no row tagged with one of its result
\* layer ids in a permanent table.
C1_NoRowsOfUnfinishedJob ==
    \A j \in Jobs :
        (tool[j] \in QueryTools /\ status[j] \in NotFinished)
            => \A r \in rows : r[2] \notin ResultLayerIds(j)

C3_OdTempGoneWhenFinished ==
    \A j \in Jobs :
        (tool[j] = "origin_destination" /\ result[j] = "finished")
            => /\ temp_table_of_layer("geometry", j) \notin temp
               /\ temp_table_of_layer("matrix", j) \notin temp

\* C4: an aggregation step returns finished only after the result INSERT, then
\* the creation of the result layer, then the deletion of the temporary tables,
\* and with none of the tables it created left.
C4_FinishedAfterInsertLayerCleanup ==
    \A j \in Jobs :
        (tool[j] \in AggregationTools /\ result[j] = "finished")
            => /\ 0 < IndexOf(calls[j], "insert_result")
               /\ IndexOf(calls[j], "insert_result")
                    < IndexOf(calls[j], "create_feature_layer_tool")
               /\ IndexOf(calls[j], "create_feature_layer_tool")
                    < IndexOf(calls[j], "delete_temp_tables")
               /\ layer_in_id(j) \in layers
               /\ created[j] \cap temp = {}

\* C4 witness: a polygon aggregation on the hex grid with grouping returned
\* finished, having created all five kinds of temporary table bar the zone copy.
C4_Witness ==
    \E j \in Jobs :
        /\ tool[j] = "aggregate_polygon"
        /\ result[j] = "finished"
        /\ {table_name_pre_grouped(j), table_name_total_stats(j),
            table_name_grouped_stats(j), temp_table_of_layer("source", j)}
              \subseteq created[j]

LegalMove(a, b) ==
    \/ a = b
    \/ a = "pending" /\ b = "running"
    \/ a = "running" /\ b \in Terminal

LastStatement(t) == IF t = "import_file" THEN "create_internal" ELSE "return_finished"

IsoN == Len(isoIn.latitude)

\* The point the code builds for the i-th supplied pair.
IsoPoint(i) == MakePoint(isoIn.latitude[i], isoIn.longitude[i])

IsoUncovered == {i \in 1..IsoN : ~InGeofence(IsoPoint(i))}

\* The consecutive batches of at most 500 places that cover 1..n, as
\* <<first, last>> places.
ExpectedBatches(n) ==
    [k \in 1..((n + 499) \div 500) |-> <<(k - 1) * 500 + 1, Min(k * 500, n)>>]

IsPrefix(p, q) == Len(p) <= Len(q) /\ \A k \in DOMAIN p : p[k] = q[k]

\* C7: the supplied points are validated in consecutive batches of at most
\* 500 (501 points: one batch of 500, one of 1); the first batch with a
\* point outside the geofence raises; nothing is inserted before every batch
\* has passed, so a request with a point outside the geofence inserts nothing.
C7_IsoAllOrNothing ==
    /\ IsPrefix(isoChecks, ExpectedBatches(IsoN))
    /\ IsPrefix(isoInserts, ExpectedBatches(IsoN))
    /\ (isoInserts # <<>> \/ isoTable # EmptyBag \/ isoPc \in {"insert", "returned"})
          => (isoChecks = ExpectedBatches(IsoN) /\ IsoUncovered = {})
    /\ IsoUncovered # {}
          => (isoInserts = <<>> /\ isoTable = EmptyBag
                /\ isoPc \in {"start", "validate", "raised"}
                /\ \A k \in DOMAIN isoChecks :
                      (k < Len(isoChecks) \/ isoPc = "validate")
                          => \A i \in isoChecks[k][1]..isoChecks[k][2] : i \notin IsoUncovered)
    /\ isoPc = "raised" => (isoInserts = <<>> /\ isoTable = EmptyBag)

\* 501 points whose last one is outside the geofence: the first batch of 500
\* passed, the second batch of 1 raised, nothing was inserted.
C7_Witness ==
    /\ IsoN = 501
    /\ isoPc = "raised"
    /\ isoChecks = <<<<1, 500>>, <<501, 501>>>>
    /\ IsoUncovered = {501}

\* C8: the count reported with OutOfGeofenceError is the number of supplied
\* pairs of the failing batch that the geofence does not cover.
C8_ReportedCount ==
    isoPc = "raised" =>
        LET b == isoChecks[Len(isoChecks)]
        IN  isoCnt = Cardinality({i \in b[1]..b[2] : i \in IsoUncovered})

\* C9: on success the table has gained exactly n rows, one per supplied
\* pair, each tagged with the new layer id.
C9_OneRowPerPair ==
    isoPc = "returned" =>
        /\ BagCardinality(isoTable) = IsoN
        /\ \A r \in BagToSet(isoTable) :
              /\ r[1] = starting_points_layer_id
              /\ CopiesIn(r, isoTable) = Cardinality({i \in 1..IsoN : IsoPoint(i) = r[2]})

(***************************************************************************)
(* Properties of the origin-destination relations (under SpecOD)           *)
(***************************************************************************)
MatrixRows == {odIn.matrix[i] : i \in DOMAIN odIn.matrix}

\* The distinct (origin, destination) pairs present in the matrix layer.
MatrixPairs == {<<m.origin, m.destination>> : m \in MatrixRows}

\* The number of rows of the geometry layer whose unique id is u.
NodesWithId(u) == Cardinality({i \in DOMAIN odIn.geometry : odIn.geometry[i].id = u})

RelationsInserted == odPc \in {"sql_query_points", "create_layers"}

\* The sum of the weights of the matrix rows of one pair.
PairWeight(pair) ==
    LET of_pair == {i \in DOMAIN odIn.matrix :
                        <<odIn.matrix[i].origin, odIn.matrix[i].destination>> = pair}
    IN  SumOver(of_pair, [i \in of_pair |-> odIn.matrix[i].weight])

\* C10 as stated: the relation table holds one row per distinct (origin,
\* destination) pair of the matrix layer, with the pair's ids and the sum of
\* the pair's weights.
C10_RowPerMatrixPair ==
    RelationsInserted =>
        /\ Cardinality(odRelation) = Cardinality(MatrixPairs)
        /\ \A pair \in MatrixPairs :
              \E r \in odRelation :
                  /\ r.origin = pair[1]
                  /\ r.destination = pair[2]
                  /\ r.weight = PairWeight(pair)

\* C10 amended: the relation table holds one row per distinct (origin,
\* destination) pair of the matrix layer whose origin and destination are
\* both unique ids of rows of the geometry layer; the row carries the pair's
\* ids and the sum of the pair's weights, each matrix row counted once per
\* combination of an origin row and a destination row with these ids (so
\* exactly once when the unique ids differ from row to row).
C10_RowPerMatchedPair ==
    RelationsInserted =>
        LET matched == {pair \in MatrixPairs :
                            NodesWithId(pair[1]) > 0 /\ NodesWithId(pair[2]) > 0}
        IN  /\ Cardinality(odRelation) = Cardinality(matched)
            /\ {<<r.origin, r.destination>> : r \in odRelation} = matched
            /\ \A r \in odRelation :
                  /\ r.layer_id = "result_layer_relation"
                  /\ r.weight = PairWeight(<<r.origin, r.destination>>)
                                  * NodesWithId(r.origin) * NodesWithId(r.destination)

\* Two pairs in the matrix, one of them with an id that is no node's: the
\* relation table holds only the row of the pair that matches nodes.
C10_Witness ==
    /\ RelationsInserted
    /\ Cardinality(MatrixPairs) = 2
    /\ Cardinality(odRelation) = 1
    /\ \A r \in odRelation : NodesWithId(r.origin) = 1 /\ NodesWithId(r.destination) = 1


PointsInserted == odPc = "create_layers"

\* The sum of the weights of the matrix rows whose destination is u.
InflowOf(u) ==
    LET into == {i \in DOMAIN odIn.matrix : odIn.matrix[i].destination = u}
    IN  SumOver(into, [i \in into |-> odIn.matrix[i].weight])

\* C11: the point table holds exactly one point per node of the geometry
\* layer, with the sum of the weights of the matrix rows whose destination is
\* that node.
C11_PointPerNode ==
    PointsInserted =>
        /\ BagCardinality(odPoint) = Len(odIn.geometry)
        /\ \A i \in DOMAIN odIn.geometry :
              \E r \in BagToSet(odPoint) :
                  /\ r.geom = ST_CENTROID(odIn.geometry[i].geom)
                  /\ r.weight = InflowOf(odIn.geometry[i].id)

\* The type family a mapped column's slot is of.
FamilyOf(slot) == slot[1]

\* The mapped columns for which the column type error is due.
TypeErrorDue ==
    \/ ~(/\ FamilyOf(odIn.columns.unique_id) = FamilyOf(odIn.columns.origin)
         /\ FamilyOf(odIn.columns.origin) = FamilyOf(odIn.columns.destination))
    \/ FamilyOf(odIn.columns.weight) \notin {"integer", "float", "bigint"}

\* C12: origin_destination raises the column type error exactly when the
\* unique-id, origin and destination slots are not all of one type family or
\* the weight slot is of no numeric family, and it raises it with no temporary
\* table created and no result row inserted.
C12_ColumnTypeError ==
    /\ odPc = "ColumnTypeError" =>
          /\ TypeErrorDue
          /\ odTemp = {}
          /\ odRelation = {}
          /\ odPoint = EmptyBag
    /\ odPc \notin {"idle", "check_column_types", "ColumnTypeError"} => ~TypeErrorDue

\* The three id columns are of one family and the weight is text: the error
\* was raised.
C12_Witness ==
    /\ odPc = "ColumnTypeError"
    /\ FamilyOf(odIn.columns.unique_id) = "bigint"
    /\ FamilyOf(odIn.columns.origin) = "bigint"
    /\ FamilyOf(odIn.columns.destination) = "bigint"
    /\ FamilyOf(odIn.columns.weight) = "text"

\* C13: the relation layer's attribute mapping has three distinct slots, named
\* origin, destination and weight in this order (the order of the INSERT's
\* columns and of the SELECT's values); the ids take attr1 and attr2 of their
\* family and the weight takes attr3 of its family when that is the ids'
\* family, attr1 otherwise.
C13_ThreeSlots ==
    odMapping # <<>> =>
        LET id == FamilyOf(odIn.columns.unique_id)
            w == FamilyOf(odIn.columns.weight)
        IN  /\ Len(odMapping) = 3
            /\ \A a, b \in 1..3 : a # b => odMapping[a][1] # odMapping[b][1]
            /\ <<odMapping[1][2], odMapping[2][2], odMapping[3][2]>>
                  = <<"origin", "destination", "weight">>
            /\ odMapping[1][1] = <<id, 1>>
            /\ odMapping[2][1] = <<id, 2>>
            /\ odMapping[3][1] = IF w = id THEN <<w, 3>> ELSE <<w, 1>>

\* Ids and weight are both of the integer family: the weight is at attr3.
C13_Witness ==
    /\ Len(odMapping) = 3
    /\ FamilyOf(odIn.columns.unique_id) = "integer"
    /\ odMapping[3] = <<<<"integer", 3>>, "weight">>


(***************************************************************************)
(* Properties of the aggregation on data (checked under SpecAgg)           *)
(***************************************************************************)
Inserted == aggPc = "create_feature_layer_tool"

\* The features of the source layer that lie in cell c.
PointsInCell(c) ==
    {i \in DOMAIN aggIn.source :
        aggIn.source[i].geom \subseteq h3_cell_to_boundary(c)}

RowsOfKey(k) == {r \in aggRows : r.key = k}

\* C14: a point aggregation that counts, with no zone layer and no grouping,
\* inserts exactly one row for each hexagonal cell that holds a source point
\* and none for the other cells; the row's total_stats is the number of source
\* points in the cell and its geometry is the boundary of the cell.
C14_RowPerCell ==
    (/\ Inserted
     /\ aggIn.tool = "aggregate_point"
     /\ aggIn.operation = "count"
     /\ ~aggIn.zone
     /\ ~aggIn.grouped)
    => /\ \A c \in Cells :
            Cardinality(RowsOfKey(c)) = IF PointsInCell(c) = {} THEN 0 ELSE 1
       /\ \A r \in aggRows :
            /\ r.key \in Cells
            /\ r.total_stats = Cardinality(PointsInCell(r.key))
            /\ r.geom = h3_cell_to_boundary(r.key)
            /\ r.layer_id = "layer_in"

C14_Witness ==
    /\ Inserted
    /\ aggIn.tool = "aggregate_point"
    /\ aggIn.operation = "count"
    /\ ~aggIn.zone
    /\ ~aggIn.grouped
    /\ Cardinality(PointsInCell("A")) = 2
    /\ \E r \in aggRows : r.key = "A" /\ r.total_stats = 2

\* The aggregation has ended: with the INSERT done or with an error raised.
Ended == aggPc \in {"create_feature_layer_tool", "UnboundLocalError"}

\* A count as the numeric the tool stores (aggregate_polygon: in halves).
AsStored(n) == IF aggIn.tool = "aggregate_polygon" THEN Halves(n) ELSE n

\* The zones of the request: the rows of the zone layer or, without one, the
\* boundaries of the hexagonal cells.
ZoneGeoms ==
    IF aggIn.zone THEN {aggIn.zones[i].geom : i \in DOMAIN aggIn.zones}
    ELSE {h3_cell_to_boundary(c) : c \in Cells}

\* The source features that intersect at least one zone.
FeaturesInSomeZone ==
    {i \in DOMAIN aggIn.source :
        \E z \in ZoneGeoms : ST_Intersects(z, aggIn.source[i].geom)}

\* The sum of total_stats over the inserted rows (NULL adds nothing).
SumOfTotals ==
    SumOver(aggRows,
            [r \in aggRows |-> IF r.total_stats = NULL THEN 0 ELSE r.total_stats])

\* C15: an aggregation that counts, without grouping, on the zone-layer path
\* or the hexagonal-grid path: the counts of all result rows add up to the
\* number of source features that satisfy the join predicate against at least
\* one zone, also when zones overlap.
C15_CountsSumToFeatures ==
    (Ended /\ aggIn.operation = "count" /\ ~aggIn.grouped)
    => SumOfTotals = AsStored(Cardinality(FeaturesInSomeZone))

\* The source features that intersect the zone of row i of the zone layer.
FeaturesOfZone(i) ==
    {k \in DOMAIN aggIn.source :
        ST_Intersects(aggIn.zones[i].geom, aggIn.source[k].geom)}

\* value(f) * area(f intersected with the zone) / area(f), in halves.
WeightedValue(i, k) ==
    aggIn.source[k].val
      * AreaRatio(ST_INTERSECTION(aggIn.zones[i].geom, aggIn.source[k].geom),
                  aggIn.source[k].geom)

\* C16: an area-weighted polygon aggregation against a zone layer with the
\* operation sum gives every zone that a source feature intersects the sum,
\* over these features f, of value(f) * area(f within the zone) / area(f).
C16_WeightedSum ==
    (/\ Inserted
     /\ aggIn.tool = "aggregate_polygon"
     /\ aggIn.zone
     /\ aggIn.weighted
     /\ aggIn.operation = "sum"
     /\ ~aggIn.grouped)
    => \A r \in aggRows :
         FeaturesOfZone(r.key) # {}
         => r.total_stats =
              SumOver(FeaturesOfZone(r.key),
                      [k \in FeaturesOfZone(r.key) |-> WeightedValue(r.key, k)])

\* C17: a grouped aggregation none of whose source features intersects a zone
\* inserts no row and raises no error, on the zone-layer path and on the
\* hexagonal-grid path.
C17_EmptyIntersectionNoRows ==
    (Ended /\ aggIn.grouped /\ FeaturesInSomeZone = {})
    => aggRows = {} /\ aggPc # "UnboundLocalError"

\* C18: prepare_aggregation checks that the statistics field exists before it
\* creates any table: when the field is absent the call ends with the
\* column-not-found error, no distributed source or aggregation table, no
\* total_stats, grouped_stats or pre-grouped table has been created and no
\* result row has been inserted.
C18_FieldCheckedFirst ==
    ~aggIn.field
    => /\ aggPc \in {"check_column_statistics", "ColumnNotFoundError"}
       /\ aggTemp = {}
       /\ aggPre = {} /\ aggTotal = {} /\ aggGrouped = {}
       /\ aggRows = {}

C18_Witness ==
    /\ ~aggIn.field
    /\ aggPc = "ColumnNotFoundError"
    /\ aggIn.source # <<>>

(***************************************************************************)
(* Properties of the result layers and the temporary tables (under Spec)   *)
(***************************************************************************)
\* The rows job j's session has inserted, committed or not.
RowsOf(j) == uncommitted[j] \cup {r \in rows : r[2] \in ResultLayerIds(j)}

UuidLike ==
    {<<a, b, "-", c, d>> : a \in {"a", "0"}, b \in {"1", "0"},
                            c \in {"0", "7"}, d \in {"7", "8"}}

\* The names job j gives its temporary tables and its import staging table.
TempNames(j) ==
    {table_name_total_stats(j), table_name_grouped_stats(j),
     table_name_pre_grouped(j), temp_table_name(j)}

\* Job k takes this step.
Acts(k) == pc'[k] # pc[k] \/ status'[k] # status[k] \/ calls'[k] # calls[k]

\* A step of one job neither creates nor drops a table the other job created.
NoInterference ==
    \A j, k \in Jobs :
        (j # k /\ Acts(k) /\ ~Acts(j))
        => /\ temp' \cap created[j] = temp \cap created[j]
           /\ created'[j] = created[j]

\* C20: the names of the temporary tables (total_stats, grouped_stats,
\* h3_pregrouped, import staging table) are an injective function of the kind
\* of table and the job id, so two jobs with different ids never create or
\* drop a table of the same name and every interleaving of the two jobs
\* leaves the tables of each untouched by the other.
C20_TempNamesPerJob ==
    /\ [](/\ \A a, b \in UuidLike : a # b => StripHyphens(a) # StripHyphens(b)
          /\ \A j \in Jobs : job_id(j) \in UuidLike /\ Cardinality(TempNames(j)) = 4
          /\ \A j, k \in Jobs :
                j # k => /\ TempNames(j) \cap TempNames(k) = {}
                         /\ created[j] \cap created[k] = {})
    /\ [][NoInterference]_vars

\* C20 witness: one job has dropped its temporary tables while the tables the
\* other job created are all still there.
C20_Witness ==
    \E j, k \in Jobs :
        /\ j # k
        /\ "delete_temp_tables" \in Range(calls[k])
        /\ created[k] # {} /\ created[k] \cap temp = {}
        /\ table_name_total_stats(j) \in created[j]
        /\ created[j] \subseteq temp

\* Job j takes a step that invokes the cleanup of its temporary tables:
\* delete_temp_tables of the tool body, or the failure handler of job_log.
Cleans(j) ==
    \/ calls'[j] = Append(calls[j], "delete_temp_tables")
    \/ status[j] \notin NotFinished /\ status'[j] \in NotFinished /\ InStep(j)

CntEnded == cntPc \in {"HTTP_422_UNPROCESSABLE_ENTITY", "return"}

\* The filter that applies: the given where query, else the layer's own.
FilterThatApplies ==
    IF cntIn.where_query \notin {"None", ""} THEN cntIn.where_query
    ELSE cntIn.layer_where_query

\* The count the claim describes.
ClaimedCount ==
    IF FilterThatApplies # "None"
    THEN Cardinality({i \in DOMAIN cntIn.table :
                         /\ cntIn.table[i].layer_id = "L"
                         /\ Satisfies(cntIn.table[i], FilterThatApplies)})
    ELSE Cardinality({i \in DOMAIN cntIn.table :
                         cntIn.table[i].layer_id = "L"})

\* C22: check_exceed_feature_cnt counts the rows that match the filter when
\* one applies and the layer's rows otherwise; it raises the limit error
\* exactly when the count is greater than max_feature_cnt, accepts a count
\* equal to it, and leaves the stored rows as they were.
C22_ExceedFeatureCnt ==
    /\ cntTable = cntIn.table
    /\ CntEnded
       => /\ cnt_to_check(feature_cnt) = ClaimedCount
          /\ cntPc = "HTTP_422_UNPROCESSABLE_ENTITY"
                <=> ClaimedCount > cntIn.max_feature_cnt

\* C22 witness: a filter that matches no row of a layer that has more rows
\* than the maximum is accepted.
C22_Witness ==
    /\ cntPc = "return"
    /\ FilterThatApplies # "None"
    /\ ClaimedCount = 0
    /\ total_count(cntIn.table) > cntIn.max_feature_cnt

ContractKinds(in, mapping) ==
    <<"layer_id", "geom">>
      \o [i \in DOMAIN attribute_mapping_aggregation(in, mapping) |-> "attribute"]
      \o <<"total_stats">>
      \o (IF in.grouped THEN <<"grouped_stats">> ELSE <<>>)

\* C24: in every branch of aggregate_point and aggregate_polygon (zone layer
\* or h3 grid, grouped or not) the combine INSERT lists as many columns as
\* its SELECT yields values, in the order layer_id, geom, the zone attribute
\* slots (text_attr1 for the h3 index on the grid), total stats, and grouped
\* stats only when group-by fields are given; no column is listed twice.
C24_InsertShape ==
    Inserted
    => \A mapping \in ZoneMappings, datatype \in StatisticsFieldTypes :
         LET columns == insert_columns(aggIn, mapping, datatype)
             values == selected_values(aggIn, mapping)
             am == attribute_mapping_aggregation(aggIn, mapping)
         IN /\ Len(columns) = Len(values)
            /\ [i \in DOMAIN values |-> values[i].kind]
                  = ContractKinds(aggIn, mapping)
            /\ columns[1] = <<"layer_id", 0>> /\ columns[2] = <<"geom", 0>>
            /\ \A i \in DOMAIN am :
                  columns[2 + i] = am[i][1] /\ values[2 + i].of = am[i][1]
            /\ \A i, k \in DOMAIN columns : i # k => columns[i] # columns[k]
            /\ ~aggIn.zone => columns[3] = AttrSlot("text", 1)

C24_Witness ==
    /\ Inserted
    /\ aggIn.grouped
    /\ aggIn.zone
    /\ aggIn.tool = "aggregate_polygon"
    /\ aggRows # {}
    /\ Len(insert_columns(aggIn,
             << <<AttrSlot("integer", 1), "population">>,
                <<AttrSlot("text", 1), "name">> >>, "integer")) = 6

(***************************************************************************)
(* Properties of import_file's attribute mapping (under SpecImportMap)     *)
(***************************************************************************)
\* The fields of the file other than id.
ImportedFields ==
    UNION {Range(mapIn[i][2]) : i \in DOMAIN mapIn} \ {"id"}

\* The slots of one type that the mapping uses.
SlotNumbers(d, type) == {d[i][2][2] : i \in {k \in DOMAIN d : d[k][2][1] = type}}

\* C25: the attribute mapping import_file builds gives every imported field
\* other than id its own slot: the slots are unique within the layer, the
\* numbers of each type are 1, 2, ... without a gap, and the inverted map
\* that is stored holds every field.
C25_SlotPerField ==
    mapPc = "create_internal"
    => /\ {attribute_mapping[i][1] : i \in DOMAIN attribute_mapping}
            = ImportedFields
       /\ Distinct(DictKeys(attribute_mapping))
       /\ Distinct([i \in DOMAIN attribute_mapping |-> attribute_mapping[i][2]])
       /\ \A type \in FieldTypes :
             SlotNumbers(attribute_mapping, type)
                = 1..Cardinality(SlotNumbers(attribute_mapping, type))
       /\ {stored_mapping[i][2] : i \in DOMAIN stored_mapping} = ImportedFields
       /\ Len(stored_mapping) = Len(attribute_mapping)
       /\ \A i \in DOMAIN attribute_mapping :
             \E k \in DOMAIN stored_mapping :
                stored_mapping[k] = <<attribute_mapping[i][2], attribute_mapping[i][1]>>

\* C25 witness: a file with the field id listed before another field of its
\* type and with fields of two types.
C25_Witness ==
    /\ mapPc = "create_internal"
    /\ Len(mapIn) = 2
    /\ \E i \in DOMAIN mapIn :
          Len(mapIn[i][2]) = 2 /\ mapIn[i][2][1] = "id"
    /\ Len(stored_mapping) >= 2

(***************************************************************************)
(* More properties of the aggregation on data (under SpecAgg)              *)
(***************************************************************************)
\* C26: aggregate_polygon without a zone layer builds its pre-grouping and
\* total-stats queries from values that are defined whether
\* weigthed_by_intersecting_area is true or false, so the call never stops on
\* an unassigned name on the way to the combine INSERT.
C26_HexPathDefined ==
    (aggIn.tool = "aggregate_polygon" /\ ~aggIn.zone)
    => aggPc # "UnboundLocalError"

\* The status the stage of import_file logged under that name returned, "none"
\* while the stage has not been called.
StageStatus(j, name) ==
    IF \E i \in DOMAIN stepLog[j] : stepLog[j][i].name = name
    THEN stepLog[j][CHOOSE i \in DOMAIN stepLog[j] : stepLog[j][i].name = name].status
    ELSE "none"

\* A stage of the import returned failed, timeout or killed.
StageFailed(j) ==
    \/ is_failure_status(StageStatus(j, "upload_ogr2ogr"))
    \/ is_failure_status(StageStatus(j, "migrate_target_table"))

\* import_file has returned to job_init.
ImportReturned(j) == pc[j] \in {"run_return", "done"}

\* C27: when upload_ogr2ogr or migrate_target_table returns failed, timeout or
\* killed, import_file returns that result, creates no layer and does not write
\* the layer id into the job's layer_ids; the layer id is written and the layer
\* created only after both stages returned a non-failure status; after a failed
\* migration the session has been rolled back before import_file returns.
C27_FailedStageNoLayer ==
    \A j \in Jobs : tool[j] = "import_file" =>
        /\ StageFailed(j) =>
              /\ layer_in_id(j) \notin layers
              /\ "update_job_layer_ids" \notin Range(calls[j])
              /\ "create_internal" \notin Range(calls[j])
              /\ ImportReturned(j) =>
                    /\ result[j] = stepLog[j][Len(stepLog[j])].status
                    /\ is_failure_status(result[j])
        /\ (\/ layer_in_id(j) \in layers
            \/ "update_job_layer_ids" \in Range(calls[j])) =>
              /\ StageStatus(j, "upload_ogr2ogr") = "finished"
              /\ StageStatus(j, "migrate_target_table") = "finished"
        /\ (is_failure_status(StageStatus(j, "migrate_target_table")) /\ ImportReturned(j)) =>
              /\ "rollback" \in Range(calls[j])
              /\ uncommitted[j] = {}
        /\ is_failure_status(StageStatus(j, "upload_ogr2ogr")) =>
              StageStatus(j, "migrate_target_table") = "none"

\* C27 witness: the migration timed out or was killed after a finished upload,
\* and import_file has returned after the rollback, with no layer.
C27_Witness ==
    \E j \in Jobs :
        /\ tool[j] = "import_file"
        /\ StageStatus(j, "upload_ogr2ogr") = "finished"
        /\ StageStatus(j, "migrate_target_table") \in {"timeout", "killed"}
        /\ "rollback" \in Range(calls[j])
        /\ pc[j] = "done"
        /\ layer_in_id(j) \notin layers

(***************************************************************************)
(* Properties of upload_file (under SpecUpload)                            *)
(***************************************************************************)
\* Uploads that ended with an HTTP error.
FailedUploads == {d \in DOMAIN upResponse : upResponse[d] # 200}

\* C28: every failure exit of upload_file taken after the file was saved runs
\* save_file_fail before the HTTP error is raised, for a failed validation
\* result, a validation timeout and a validation exception alike: no failed
\* upload leaves its saved file behind.
C28_FailedUploadLeavesNoFile == \A d \in FailedUploads : d \notin upFiles

(***************************************************************************)
(* Properties of the user endpoints (under SpecUser)                       *)
(***************************************************************************)
\* C29: after any sequence of create_user and delete_user calls, failing ones
\* included, a user record exists if and only if that user's data tables
\* exist.
C29_RecordIffTables ==
    usrPc = "idle" => \A u \in UserIds : u \in userRecords <=> u \in userTables

(***************************************************************************)
(* Result tables and registered layers (under Spec)                        *)
(***************************************************************************)
\* The layer object a tool job made under that id.
ResultLayer(j, id) ==
    CASE id = layer_in_id(j) -> layer_in(j)
      [] id = result_layer_relation_id(j) -> result_layer_relation(j)
      [] id = result_layer_point_id(j) -> result_layer_point(j)

\* The rows job j's tool has inserted, committed or not.
InsertedBy(j) == {r \in rows \cup uncommitted[j] : r[2] \in ResultLayerIds(j)}

\* C30: the table that receives the rows tagged with a result layer's id is
\* internal_layer_table_name of that layer (schema.<geometry type>_<user id
\* without hyphens>): the polygon table for aggregation results, the line table
\* for OD relations, the point table for OD points and for the isochrone
\* starting points; the rows of a layer are all in the table the layer
\* resolves to.
C30_RowsInLayerTable ==
    /\ \A j \in Jobs : tool[j] # "import_file" =>
          \A r \in InsertedBy(j) :
              r[1] = internal_layer_table_name(ResultLayer(j, r[2]))
    /\ table_starting_points = internal_layer_table_name(starting_points_layer)

\* C30 witness: an origin-destination job has its relation rows in the line
\* table and its point rows in the point table, and both layers are registered.
C30_Witness ==
    \E j \in Jobs :
        /\ tool[j] = "origin_destination"
        /\ <<internal_layer_table_name(result_layer_relation(j)),
             result_layer_relation_id(j)>> \in rows
        /\ <<internal_layer_table_name(result_layer_point(j)),
             result_layer_point_id(j)>> \in rows
        /\ {result_layer_relation_id(j), result_layer_point_id(j)} \subseteq layers

====
